---- MODULE Spec2Model ----
(***************************************************************************)
(* Model of the task orchestration engine of vertex_system:                *)
(*   src/orchestration/task_orchestrator.py  (Task, ModelTaskExecutor,     *)
(*   TaskOrchestrator).                                                    *)
(*                                                                         *)
(* Task objects live on a heap (objs); self.tasks maps a task id to the    *)
(* object that add_task stored last.  execute_task is a coroutine: it runs *)
(* atomically up to "await self.executor.execute_task(task)", is suspended *)
(* there, and runs atomically again when the executor returns or raises    *)
(* (a retry re-enters execute_task inside the same step, up to the next    *)
(* await).  execute_workflow is suspended in asyncio.gather until every    *)
(* coroutine of the round has finished.                                    *)
(***************************************************************************)
EXTENDS Integers, Sequences, FiniteSets, TLC

\* ------------------------------------------------------------------ bounds
\* Number of add_task calls made through the direct task API.
MaxSubmits == 2
\* Largest max_retries given to a task.
MaxRetries == 2

\* ------------------------------------------------------------- input space
TaskIds == {"A", "B", "C"}
WorkflowId == "w1"

\* The ids callers of the direct task API (add_task, execute_task) use.
SoloIds == {"A", "B"}

\* The dependency lists a task may carry (Task.dependencies): chains, fan-out,
\* fan-in, cycles (A -> C -> A, A -> C -> B -> A) and, when the named task was
\* never added, dependencies on unknown ids.
DepChoices(id) ==
    CASE id = "A" -> { <<>>, <<"C">> }
      [] id = "B" -> { <<>>, <<"A">> }
      [] id = "C" -> { <<>>, <<"A">>, <<"B">>, <<"A", "B">> }

\* ------------------------------------------------------------------ values
PENDING == "pending"
RUNNING == "running"
COMPLETED == "completed"
FAILED == "failed"
CANCELLED == "cancelled"
Terminal == {COMPLETED, FAILED, CANCELLED}

None == <<>>
TheResult == <<"result">>
ExecutorError == <<"executor error">>
TaskNotFound(id) == <<"Task not found", id>>
DependencyNotSatisfied(id) == <<"Dependency not satisfied", id>>
DependencyFailed(id) == <<"Dependency failed", id>>
WorkflowNotFound(id) == <<"Workflow not found", id>>

Range(s) == { s[i] : i \in DOMAIN s }

\* ------------------------------------------------------------------- state
VARIABLES
    objs,       \* heap of Task objects, in construction order
    tasks,      \* TaskOrchestrator.tasks: task id -> heap index (0: absent)
    workflows,  \* TaskOrchestrator.workflows: the task ids of WorkflowId (or None)
    co,         \* execute_task coroutines: <<caller, task id>> -> frame
    wf,         \* the execute_workflow coroutine: locals and position
    ret,        \* value returned (or exception raised) by the most recent call
    \* CreditManager (src/optimization/resource_optimization.py)
    balance,        \* CreditManager.balance
    budget_limit,   \* CreditManager.budget_limit: None or <<limit>>
    allocations,    \* CreditManager.allocations: component_id -> allocation
    usage_history,  \* CreditManager.usage_history
    threads,        \* threads calling the CreditManager: thread -> frame
    \* CostAwareSelector
    registry,       \* ProviderRegistry._providers, in registration order
    cost_cache,     \* CostAwareSelector.cost_cache: <<provider, model>> -> cost
    \* PredictiveBatchScheduler
    workload_history,   \* PredictiveBatchScheduler.workload_history
    current_schedule,   \* PredictiveBatchScheduler.current_schedule
    now,                \* time.time(), in whole seconds
    \* Sleep-time optimization (src/optimization/sleep_optimizer.py)
    monitor,        \* ResourceMonitor: resource_usage["cpu"], usage_history
    scheduler,      \* TaskScheduler: tasks, task_queue and the three id sets
    detector,       \* SleepDetector: min_idle_time, idle_start_time, is_idle
    optimizer,      \* SleepTimeOptimizer: running, worker_thread, and stop()'s pending join
    workers,        \* the threads start() created: thread -> position in _worker_loop
    clock,          \* time.time() of the sleep-time components, in seconds
    idle_checks,    \* what check_idle_state returned to its direct callers, in call order
    \* BatchController (src/orchestration/batch_controller.py)
    controller,     \* pending_tasks, active_batches, completed_batches, rule_cache
    formed,         \* the non-empty batches the form_* calls returned, in call order
    batch_tasks,    \* status of the Task objects handed to BatchController.add_task
    proc            \* the frame of the process_batches call

orchVars == <<objs, tasks, workflows, co, wf, ret>>
ledgerVars == <<balance, budget_limit, allocations, usage_history>>
selVars == <<registry, cost_cache>>
schedVars == <<workload_history, current_schedule, now>>
resVars == <<ledgerVars, threads, selVars, schedVars>>
sleepVars == <<monitor, scheduler, detector, optimizer, workers, clock, idle_checks>>
\* The state of the background layers, which the orchestrator and the
\* resource optimization layer do not touch.
batchVars == <<controller, formed, batch_tasks, proc>>
bgVars == <<sleepVars, batchVars>>
vars == <<orchVars, resVars, bgVars>>

\* Task.__init__
NewTask(id, deps, mr) ==
    [ task_id |-> id, dependencies |-> deps, max_retries |-> mr,
      status |-> PENDING, retry_count |-> 0, error |-> None, result |-> None,
      timeout_seconds |-> None, execution_trace |-> <<>> ]

\* A coroutine slot: "solo" is a direct execute_task(id) call, "wf" the
\* coroutine execute_workflow creates for id.
Callers == {"solo", "wf"}
Slots == Callers \X TaskIds
IdleFrame == [ pc |-> "none", task |-> 0, exc |-> None ]

IdleWf ==
    [ pc |-> "none", graph_deps |-> <<>>, dependents |-> <<>>,
      ready_tasks |-> <<>>, current_tasks |-> <<>>, results |-> <<>> ]

\* TaskOrchestrator.__init__
InitOrchestrator ==
    /\ objs = <<>>
    /\ tasks = [ id \in TaskIds |-> 0 ]
    /\ workflows = <<>>
    /\ co = [ c \in Slots |-> IdleFrame ]
    /\ wf = IdleWf
    /\ ret = [ op |-> "none", arg |-> "none", val |-> FALSE, exc |-> None ]

\* CreditManager.__init__(initial_balance, budget_limit)
InitCreditManager(initial_balance, limit) ==
    /\ balance = initial_balance
    /\ budget_limit = limit
    /\ usage_history = <<>>
    /\ allocations = <<>>

\* No thread is inside a CreditManager call.
Threads == {"t1", "t2"}
IdleThread == [ pc |-> "idle", op |-> "none", c |-> "none", amount |-> 0,
                tmp |-> 0, val |-> FALSE ]
InitThreads == threads = [ t \in Threads |-> IdleThread ]

\* CostAwareSelector.__init__ over the given ProviderRegistry
InitSelector(providers) ==
    /\ registry = providers
    /\ cost_cache = <<>>

\* PredictiveBatchScheduler.__init__
InitScheduler ==
    /\ workload_history = <<>>
    /\ current_schedule = <<>>
    /\ now = 0

\* The resource optimization layer constructed with its defaults
\* (initial_balance = 0.0, budget_limit = None) over an empty registry.
InitResources ==
    /\ InitCreditManager(0, None)
    /\ InitThreads
    /\ InitSelector(<<>>)
    /\ InitScheduler

\* The ids of the sleep-time tasks (SleepTimeTask.task_id).
SleepIds == {"s1", "s2"}
\* The threads start() may create.
WorkerIds == {"w1", "w2"}
\* A worker thread that was not created yet.
\* pc: position in _worker_loop; task: the task get_next_task handed out;
\* idle: idle_status["is_idle"] of the current poll; wake: when time.sleep
\* ends; started: the tasks started since the poll's idle check.
NoWorker == [ pc |-> "none", task |-> None, idle |-> FALSE, wake |-> 0, started |-> 0 ]

\* ResourceMonitor.__init__: no usage, no samples.  Of the three resources
\* only "cpu" is ever updated; "memory" and "credits" stay at 0.0.
InitMonitor == monitor = [ cpu |-> 0, usage_history |-> <<>> ]

\* TaskScheduler.__init__
InitTaskScheduler ==
    scheduler = [ tasks |-> [ id \in SleepIds |-> None ], task_queue |-> <<>>,
                  scheduled_tasks |-> {}, completed_tasks |-> {}, failed_tasks |-> {} ]

\* SleepDetector.__init__(resource_monitor, min_idle_time = ...)
InitDetector(min_idle_time) ==
    detector = [ min_idle_time |-> min_idle_time, idle_start_time |-> None,
                 is_idle |-> FALSE ]

\* SleepTimeOptimizer.__init__
InitOptimizer ==
    /\ optimizer = [ running |-> FALSE, worker_thread |-> None, join_deadline |-> None ]
    /\ workers = [ w \in WorkerIds |-> NoWorker ]

\* min_idle_time: float = 10.0
DefaultMinIdleTime == 10

InitSleep(min_idle_time) ==
    /\ InitMonitor
    /\ InitTaskScheduler
    /\ InitDetector(min_idle_time)
    /\ InitOptimizer
    /\ clock = 0
    /\ idle_checks = <<>>

\* The tasks handed to BatchController.add_task; each is added once.
BatchTaskIds == {"b1", "b2", "b3"}
\* No process_batches call was made.  pc: position in process_batches;
\* config, rules: its arguments (rules: rule_ids and system_state are given);
\* batch_info: the batch being processed; results: the local list returned.
NoCall == [ pc |-> "none", config |-> None, rules |-> FALSE, batch_info |-> None,
            results |-> <<>> ]

\* BatchController.__init__
InitController ==
    /\ controller = [ pending_tasks |-> <<>>, active_batches |-> <<>>,
                      completed_batches |-> <<>>, rule_cache |-> {} ]
    /\ formed = <<>>
    /\ batch_tasks = [ id \in BatchTaskIds |-> "absent" ]
    /\ proc = NoCall

\* The background layers constructed with their defaults.
InitBackground == InitSleep(DefaultMinIdleTime) /\ InitController

Init == InitOrchestrator /\ InitResources /\ InitBackground

\* TaskOrchestrator.get_task: the heap index stored under id, 0 for None.
get_task(tbl, id) == IF id \in DOMAIN tbl THEN tbl[id] ELSE 0

\* Status of the task stored under id ("absent" when get_task gives None).
StatusOf(id) == IF get_task(tasks, id) = 0 THEN "absent" ELSE objs[get_task(tasks, id)].status

\* ------------------------------------------------- TaskOrchestrator.add_task
\* add_task: self.tasks[task.task_id] = task (an id already present is
\* overwritten; the old object stays on the heap for whoever still holds it).
add_task(st, task) ==
    [ objs |-> Append(st.objs, task),
      tasks |-> [ st.tasks EXCEPT ![task.task_id] = Len(st.objs) + 1 ] ]

Submit(id, deps, mr) ==
    /\ Len(objs) < MaxSubmits
    /\ LET r == add_task([objs |-> objs, tasks |-> tasks], NewTask(id, deps, mr))
       IN  /\ objs' = r.objs
           /\ tasks' = r.tasks
    /\ UNCHANGED <<workflows, co, wf, ret>>
    /\ UNCHANGED <<resVars, bgVars>>

\* ------------------------------------------ TaskOrchestrator.create_workflow
RECURSIVE AddAll(_, _)
AddAll(st, specs) ==
    IF specs = <<>> THEN st
    ELSE AddAll(add_task(st, NewTask(Head(specs).id, Head(specs).deps, Head(specs).mr)),
                Tail(specs))

\* The task lists create_workflow is called with: distinct ids in any order.
IdLists ==
    { s \in UNION { [1..n -> TaskIds] : n \in 0..Cardinality(TaskIds) } :
        \A i, j \in DOMAIN s : i # j => s[i] # s[j] }

DepAssignments ==
    { f \in [ TaskIds -> UNION { DepChoices(t) : t \in TaskIds } ] :
        \A t \in TaskIds : f[t] \in DepChoices(t) }

\* The inputs of create_workflow: a list of new tasks with distinct ids, each
\* with one of its dependency lists, all with the same max_retries (none or
\* the largest budget; max_retries = 1 fails on the first failure as 0 does).
WorkflowInputs ==
    { [ i \in DOMAIN ids |-> [ id |-> ids[i], deps |-> d[ids[i]], mr |-> m ] ] :
        ids \in IdLists, d \in DepAssignments, m \in {0, MaxRetries} }

CreateWorkflow(specs) ==
    /\ WorkflowId \notin DOMAIN workflows
    /\ LET r == AddAll([objs |-> objs, tasks |-> tasks], specs)
       IN  /\ objs' = r.objs
           /\ tasks' = r.tasks
    /\ workflows' = (WorkflowId :> [ i \in DOMAIN specs |-> specs[i].id ])
    /\ UNCHANGED <<co, wf, ret>>
    /\ UNCHANGED <<resVars, bgVars>>

\* ---------------------------------------------- TaskOrchestrator.execute_task
\* Index in deps of the first dependency that is absent or not COMPLETED
\* (0 when every dependency is satisfied): the loop of lines 441-444.
FirstUnsatisfied(os, deps) ==
    LET bad == { i \in DOMAIN deps :
                   \/ get_task(tasks, deps[i]) = 0
                   \/ os[get_task(tasks, deps[i])].status # COMPLETED }
    IN  IF bad = {} THEN 0 ELSE CHOOSE i \in bad : \A j \in bad : i <= j

\* EnterExecute with the dependency loop of lines 441-444 left out.
EnterExecuteUnchecked(os, id) ==
    LET o == get_task(tasks, id) IN
    IF o = 0
    THEN [ objs |-> os, frame |-> [ pc |-> "raised", task |-> 0, exc |-> TaskNotFound(id) ] ]
    ELSE [ objs |-> [ os EXCEPT ![o].status = RUNNING ],
           frame |-> [ pc |-> "exec", task |-> o, exc |-> None ] ]

\* Entry of execute_task up to the await (lines 436-452): lookup, dependency
\* check, status := RUNNING.  Gives the new heap and the coroutine's frame.
EnterExecute(os, id) ==
    LET o == get_task(tasks, id) IN
    IF o = 0
    THEN [ objs |-> os, frame |-> [ pc |-> "raised", task |-> 0, exc |-> TaskNotFound(id) ] ]
    ELSE LET i == FirstUnsatisfied(os, os[o].dependencies) IN
         IF i # 0
         THEN [ objs |-> os,
                frame |-> [ pc |-> "raised", task |-> 0,
                            exc |-> DependencyNotSatisfied(os[o].dependencies[i]) ] ]
         ELSE [ objs |-> [ os EXCEPT ![o].status = RUNNING ],
                frame |-> [ pc |-> "exec", task |-> o, exc |-> None ] ]

\* The executor returned a result for object o (ModelTaskExecutor lines
\* 242-251 record the attempt, execute_task lines 455-459 store the result).
OnSuccess(os, o) ==
    [ objs |-> [ os EXCEPT ![o].execution_trace = Append(@, TRUE),
                           ![o].status = COMPLETED,
                           ![o].result = TheResult ],
      frame |-> [ pc |-> "returned", task |-> 0, exc |-> None ] ]

\* OnFailure with the comparison of line 466 off by one (<= for <).
OnFailureRetryOnEqual(os, o, id) ==
    LET os1 == [ os EXCEPT ![o].execution_trace = Append(@, FALSE),
                           ![o].retry_count = @ + 1,
                           ![o].error = ExecutorError ]
    IN  IF os1[o].retry_count <= os1[o].max_retries
        THEN EnterExecute(os1, id)
        ELSE [ objs |-> [ os1 EXCEPT ![o].status = FAILED ],
               frame |-> [ pc |-> "raised", task |-> 0, exc |-> ExecutorError ] ]

\* The executor raised for object o (ModelTaskExecutor lines 253-264 record
\* the attempt, execute_task lines 461-473 count it and retry or fail).  The
\* retry is the recursive execute_task(task_id), run up to its own await.
OnFailure(os, o, id) ==
    LET os1 == [ os EXCEPT ![o].execution_trace = Append(@, FALSE),
                           ![o].retry_count = @ + 1,
                           ![o].error = ExecutorError ]
    IN  IF os1[o].retry_count < os1[o].max_retries
        THEN EnterExecute(os1, id)
        ELSE [ objs |-> [ os1 EXCEPT ![o].status = FAILED ],
               frame |-> [ pc |-> "raised", task |-> 0, exc |-> ExecutorError ] ]

\* A caller invokes execute_task(id) directly.
Execute(id) ==
    /\ co[<<"solo", id>>].pc = "none"
    /\ LET r == EnterExecute(objs, id)
       IN  /\ objs' = r.objs
           /\ co' = [ co EXCEPT ![<<"solo", id>>] = r.frame ]
    /\ UNCHANGED <<tasks, workflows, wf, ret>>
    /\ UNCHANGED <<resVars, bgVars>>

\* A coroutine created by execute_workflow gets to run.
WorkflowTaskStart(id) ==
    /\ co[<<"wf", id>>].pc = "scheduled"
    /\ LET r == EnterExecute(objs, id)
       IN  /\ objs' = r.objs
           /\ co' = [ co EXCEPT ![<<"wf", id>>] = r.frame ]
    /\ UNCHANGED <<tasks, workflows, wf, ret>>
    /\ UNCHANGED <<resVars, bgVars>>

ExecutorReturns(c) ==
    /\ co[c].pc = "exec"
    /\ LET r == OnSuccess(objs, co[c].task)
       IN  /\ objs' = r.objs
           /\ co' = [ co EXCEPT ![c] = r.frame ]
    /\ UNCHANGED <<tasks, workflows, wf, ret>>
    /\ UNCHANGED <<resVars, bgVars>>

ExecutorRaises(c) ==
    /\ co[c].pc = "exec"
    /\ LET r == OnFailure(objs, co[c].task, c[2])
       IN  /\ objs' = r.objs
           /\ co' = [ co EXCEPT ![c] = r.frame ]
    /\ UNCHANGED <<tasks, workflows, wf, ret>>
    /\ UNCHANGED <<resVars, bgVars>>

\* ----------------------------------------------- TaskOrchestrator.cancel_task
\* cancel_task without the status test of line 577.
cancel_taskAnyStatus(os, id) ==
    LET o == get_task(tasks, id) IN
    IF o = 0 THEN [ objs |-> os, val |-> FALSE ]
    ELSE [ objs |-> [ os EXCEPT ![o].status = CANCELLED ], val |-> TRUE ]

cancel_task(os, id) ==
    LET o == get_task(tasks, id) IN
    IF o = 0 THEN [ objs |-> os, val |-> FALSE ]
    ELSE IF os[o].status \in {PENDING, RUNNING}
         THEN [ objs |-> [ os EXCEPT ![o].status = CANCELLED ], val |-> TRUE ]
         ELSE [ objs |-> os, val |-> FALSE ]

Cancel(id) ==
    /\ LET r == cancel_task(objs, id)
       IN  /\ objs' = r.objs
           /\ ret' = [ op |-> "cancel_task", arg |-> id, val |-> r.val, exc |-> None ]
    /\ UNCHANGED <<tasks, workflows, co, wf>>
    /\ UNCHANGED <<resVars, bgVars>>

\* ------------------------------------------- TaskOrchestrator.cancel_workflow
RECURSIVE CancelAll(_, _, _)
CancelAll(os, ids, cancelled_tasks) ==
    IF ids = <<>> THEN [ objs |-> os, val |-> cancelled_tasks ]
    ELSE LET r == cancel_task(os, Head(ids))
         IN  CancelAll(r.objs, Tail(ids),
                       IF r.val THEN Append(cancelled_tasks, Head(ids)) ELSE cancelled_tasks)

\* self.workflows.get(workflow_id): None and the empty list are both falsy.
WorkflowTaskIds == IF WorkflowId \in DOMAIN workflows THEN workflows[WorkflowId] ELSE <<>>

cancel_workflow(os) ==
    IF WorkflowTaskIds = <<>>
    THEN [ objs |-> os, val |-> <<>>, exc |-> WorkflowNotFound(WorkflowId) ]
    ELSE LET r == CancelAll(os, WorkflowTaskIds, <<>>)
         IN  [ objs |-> r.objs, val |-> r.val, exc |-> None ]

CancelWorkflow ==
    /\ LET r == cancel_workflow(objs)
       IN  /\ objs' = r.objs
           /\ ret' = [ op |-> "cancel_workflow", arg |-> WorkflowId,
                       val |-> r.val, exc |-> r.exc ]
    /\ UNCHANGED <<tasks, workflows, co, wf>>
    /\ UNCHANGED <<resVars, bgVars>>

\* ------------------------------------------ TaskOrchestrator.execute_workflow
\* graph[d]["dependents"]: the task ids, in graph order, that list d
\* (lines 503-506).
DependentsOf(ids, gdeps, d) ==
    SelectSeq(ids, LAMBDA t : d \in Range(gdeps[t]))

\* Lines 509-514: the tasks with no dependency inside the workflow.
InitialReady(ids, gdeps) ==
    SelectSeq(ids, LAMBDA t : \A d \in Range(gdeps[t]) : d \notin Range(ids))

\* Lines 540-543: every direct dependent of a failed task is marked FAILED.
RECURSIVE MarkDependentsFailed(_, _, _)
MarkDependentsFailed(os, deps, failed_id) ==
    IF deps = <<>> THEN os
    ELSE LET o == get_task(tasks, Head(deps))
         IN  MarkDependentsFailed(
                 [ os EXCEPT ![o].status = FAILED,
                             ![o].error = DependencyFailed(failed_id) ],
                 Tail(deps), failed_id)

\* PromoteDependents that only promotes a dependent with a single dependency.
PromoteDependentsSingle(ready, deps, results, w) ==
    ready \o SelectSeq(deps, LAMBDA t : Len(w.graph_deps[t]) = 1)

\* Lines 549-559: the dependents all of whose in-graph dependencies have an
\* entry in results are appended to ready_tasks.
RECURSIVE PromoteDependents(_, _, _, _)
PromoteDependents(ready, deps, results, w) ==
    IF deps = <<>> THEN ready
    ELSE PromoteDependents(
             IF \A d \in Range(w.graph_deps[Head(deps)]) :
                    d \in DOMAIN w.graph_deps => d \in DOMAIN results
             THEN Append(ready, Head(deps)) ELSE ready,
             Tail(deps), results, w)

\* Lines 534-559: the results of one round, in the order of current_tasks.
\* st = [objs, results, ready_tasks].
RECURSIVE ProcessResults(_, _, _)
ProcessResults(st, current, w) ==
    IF current = <<>> THEN st
    ELSE LET t == Head(current)
             f == co[<<"wf", t>>]
         IN  IF f.pc = "raised"
             THEN ProcessResults(
                      [ objs |-> MarkDependentsFailed(st.objs, w.dependents[t], t),
                        results |-> (t :> <<"error", f.exc>>) @@ st.results,
                        ready_tasks |-> st.ready_tasks ],
                      Tail(current), w)
             ELSE LET res == (t :> TheResult) @@ st.results
                  IN  ProcessResults(
                          [ objs |-> st.objs,
                            results |-> res,
                            ready_tasks |->
                                PromoteDependents(st.ready_tasks, w.dependents[t], res, w) ],
                          Tail(current), w)

\* A loop head that launches the ready tasks without emptying ready_tasks.
NextRoundKeepReady(w, frames) ==
    IF w.ready_tasks = <<>>
    THEN [ wf |-> [ w EXCEPT !.pc = "done", !.current_tasks = <<>> ], co |-> frames ]
    ELSE [ wf |-> [ w EXCEPT !.pc = "gather", !.current_tasks = w.ready_tasks ],
           co |-> [ c \in Slots |->
                      IF c[1] = "wf" /\ c[2] \in Range(w.ready_tasks)
                      THEN [ pc |-> "scheduled", task |-> 0, exc |-> None ]
                      ELSE frames[c] ] ]

\* Lines 518-531: the head of the while loop.  With nothing ready the
\* coroutine returns results; otherwise it creates one execute_task coroutine
\* per ready task and waits in asyncio.gather.
NextRound(w, frames) ==
    IF w.ready_tasks = <<>>
    THEN [ wf |-> [ w EXCEPT !.pc = "done", !.current_tasks = <<>> ], co |-> frames ]
    ELSE [ wf |-> [ w EXCEPT !.pc = "gather", !.current_tasks = w.ready_tasks,
                             !.ready_tasks = <<>> ],
           co |-> [ c \in Slots |->
                      IF c[1] = "wf" /\ c[2] \in Range(w.ready_tasks)
                      THEN [ pc |-> "scheduled", task |-> 0, exc |-> None ]
                      ELSE frames[c] ] ]

\* execute_workflow is called: lines 488-531, up to the first gather.
ExecuteWorkflow ==
    /\ wf.pc = "none"
    /\ IF WorkflowTaskIds = <<>>
       THEN /\ wf' = [ wf EXCEPT !.pc = "raised" ]
            /\ co' = co
       ELSE LET ids == WorkflowTaskIds
                gdeps == [ t \in Range(ids) |-> objs[get_task(tasks, t)].dependencies ]
                w == [ pc |-> "none",
                       graph_deps |-> gdeps,
                       dependents |-> [ d \in Range(ids) |-> DependentsOf(ids, gdeps, d) ],
                       ready_tasks |-> InitialReady(ids, gdeps),
                       current_tasks |-> <<>>,
                       results |-> <<>> ]
                r == NextRound(w, co)
            IN  /\ wf' = r.wf
                /\ co' = r.co
    /\ UNCHANGED <<objs, tasks, workflows, ret>>
    /\ UNCHANGED <<resVars, bgVars>>

\* gather returns: every coroutine of the round has finished.  Lines 533-559
\* process the round, then the loop head runs again.
WorkflowRound ==
    /\ wf.pc = "gather"
    /\ \A t \in Range(wf.current_tasks) : co[<<"wf", t>>].pc \in {"returned", "raised"}
    /\ LET st == ProcessResults([ objs |-> objs, results |-> wf.results,
                                  ready_tasks |-> wf.ready_tasks ],
                                wf.current_tasks, wf)
           r == NextRound([ wf EXCEPT !.results = st.results,
                                      !.ready_tasks = st.ready_tasks ], co)
       IN  /\ objs' = st.objs
           /\ wf' = r.wf
           /\ co' = r.co
    /\ UNCHANGED <<tasks, workflows, ret>>
    /\ UNCHANGED <<resVars, bgVars>>

\* -------------------------------------------------------------- specifications
\* The direct task API: tasks are added (an id may be added again), executed
\* by execute_task callers, and cancelled, in any interleaving.  A task is
\* added with no retries or with the largest retry budget; the budgets in
\* between are exercised by SpecRetry.
Next ==
    \/ \E id \in SoloIds : \E deps \in DepChoices(id) : \E mr \in {0, MaxRetries} :
           Submit(id, deps, mr)
    \/ \E id \in SoloIds : Execute(id)
    \/ \E c \in Slots : ExecutorReturns(c)
    \/ \E c \in Slots : ExecutorRaises(c)
    \/ \E id \in SoloIds : Cancel(id)

Spec == Init /\ [][Next]_vars

\* A workflow: created by create_workflow, executed by one execute_workflow
\* call whose executor calls return or raise in any order, with cancel_task
\* at any time and cancel_workflow while the workflow executes.
NextWorkflow ==
    \/ \E specs \in WorkflowInputs : CreateWorkflow(specs)
    \/ ExecuteWorkflow
    \/ \E id \in TaskIds : WorkflowTaskStart(id)
    \/ \E c \in Slots : ExecutorReturns(c)
    \/ \E c \in Slots : ExecutorRaises(c)
    \/ WorkflowRound
    \/ \E id \in TaskIds : Cancel(id)
    \/ (wf.pc = "gather" /\ CancelWorkflow)

SpecWorkflow == Init /\ [][NextWorkflow]_vars

\* A workflow whose executor succeeds on every call, run by an event loop that
\* lets every ready coroutine run: nothing else touches its tasks.
NextWorkflowOk ==
    \/ \E specs \in WorkflowInputs : CreateWorkflow(specs)
    \/ ExecuteWorkflow
    \/ \E id \in TaskIds : WorkflowTaskStart(id)
    \/ \E c \in Slots : ExecutorReturns(c)
    \/ WorkflowRound

SpecWorkflowOk ==
    /\ Init /\ [][NextWorkflowOk]_vars
    /\ \A id \in TaskIds : WF_vars(WorkflowTaskStart(id))
    /\ \A c \in Slots : WF_vars(ExecutorReturns(c))
    /\ WF_vars(WorkflowRound)

\* Sequential use of execute_task: every task is added once, under a new id,
\* and executed by one execute_task call whose executor calls fail or succeed
\* in any pattern.
NextRetry ==
    \/ \E id \in SoloIds : \E deps \in DepChoices(id) : \E mr \in 0..MaxRetries :
           (tasks[id] = 0 /\ Submit(id, deps, mr))
    \/ \E id \in SoloIds : Execute(id)
    \/ \E c \in Slots : ExecutorReturns(c)
    \/ \E c \in Slots : ExecutorRaises(c)

SpecRetry == Init /\ [][NextRetry]_vars

\* ===================================================================== claims
\* The frame of coroutine c is suspended in the executor call for object o.
InExecutor(c, o) == co[c].pc = "exec" /\ co[c].task = o

\* In this step the executor call of coroutine c (on object o) comes back:
\* the attempt is recorded on o.
ExecutorCallEnds(c, o) ==
    /\ InExecutor(c, o)
    /\ Len(objs'[o].execution_trace) = Len(objs[o].execution_trace) + 1

\* In this step coroutine c sets a task RUNNING and calls the executor: it
\* enters execute_task, or re-enters it for a retry.
StartsTask(c) ==
    /\ co'[c].pc = "exec"
    /\ \/ co[c].pc # "exec"
       \/ ExecutorCallEnds(c, co[c].task)

\* C1: once the status of a task is COMPLETED, FAILED or CANCELLED it never
\* changes again.
C1_TerminalStatusMonotonic ==
    [][ \A o \in DOMAIN objs :
            objs[o].status \in Terminal => objs'[o].status = objs[o].status ]_vars

\* C2: whenever a coroutine sets a task RUNNING (first attempt or retry
\* re-entry), every id in the task's dependencies is in the task table with
\* status COMPLETED at that instant.
C2_StartsOnlyWithCompletedDependencies ==
    [][ \A c \in Slots :
            StartsTask(c) =>
                \A d \in Range(objs[co'[c].task].dependencies) : StatusOf(d) = COMPLETED ]_vars

\* C2 witness: a task with a dependency is RUNNING again after a failed
\* attempt (retry re-entry), its dependency COMPLETED.
C2_Witness ==
    \E c \in Slots :
        /\ co[c].pc = "exec"
        /\ objs[co[c].task].dependencies # <<>>
        /\ objs[co[c].task].retry_count > 0
        /\ \A d \in Range(objs[co[c].task].dependencies) : StatusOf(d) = COMPLETED

\* C3: if a task was set CANCELLED while its execute_task is suspended in the
\* executor call, then when the call comes back the result is discarded, no
\* retry is started and the status stays CANCELLED.
C3_CancelledStaysCancelled ==
    [][ \A c \in Slots : \A o \in DOMAIN objs :
            (ExecutorCallEnds(c, o) /\ objs[o].status = CANCELLED) =>
                /\ objs'[o].status = CANCELLED
                /\ objs'[o].result = objs[o].result
                /\ co'[c].pc # "exec" ]_vars

\* C9: cancel(id) returns true and sets the status to CANCELLED iff the task
\* exists with status PENDING or RUNNING; otherwise (terminal status, unknown
\* id) it returns false and changes no task.
C9_CancelContract ==
    [][ \A id \in TaskIds :
            Cancel(id) =>
                /\ ret'.op = "cancel_task" /\ ret'.arg = id
                /\ ret'.val = (StatusOf(id) \in {PENDING, RUNNING})
                /\ IF StatusOf(id) \in {PENDING, RUNNING}
                   THEN objs' = [ objs EXCEPT ![get_task(tasks, id)].status = CANCELLED ]
                   ELSE objs' = objs ]_vars

\* C9 witness: cancel was called on a task in a terminal status, and on an
\* unknown id, and returned false.
C9_Witness ==
    /\ ret.op = "cancel_task"
    /\ ret.val = FALSE
    /\ StatusOf(ret.arg) \in {COMPLETED, FAILED}
    /\ \E id \in TaskIds : StatusOf(id) = CANCELLED

\* ------------------------------------------------------------ workflow claims
Members == Range(WorkflowTaskIds)

\* The error entry execute_workflow stored for t (line 537).
FailedInWorkflow(t) ==
    t \in DOMAIN wf.results /\ wf.results[t] # TheResult

\* The ids t depends on, directly or through other tasks of the table.
RECURSIVE TransitiveDeps(_, _)
TransitiveDeps(frontier, seen) ==
    LET next == UNION { IF get_task(tasks, d) = 0 THEN {}
                        ELSE Range(objs[get_task(tasks, d)].dependencies) : d \in frontier }
                \ (seen \cup frontier)
    IN  IF next = {} THEN seen \cup frontier
        ELSE TransitiveDeps(next, seen \cup frontier)

DepsOf(t) ==
    IF get_task(tasks, t) = 0 THEN {}
    ELSE TransitiveDeps(Range(objs[get_task(tasks, t)].dependencies), {})

\* The dependency graph of the workflow has no cycle.
Acyclic == \A t \in Members : t \notin DepsOf(t)

\* C4: when execute_workflow has returned, every transitive dependent of a
\* task it recorded as failed is FAILED with the error
\* "Dependency failed: <id>" naming a failed task it depends on.
C4_TransitiveDependentsFailed ==
    wf.pc = "done" =>
        \A t \in Members : \A f \in DepsOf(t) \cap Members :
            FailedInWorkflow(f) =>
                /\ StatusOf(t) = FAILED
                /\ \E g \in DepsOf(t) : objs[get_task(tasks, t)].error = DependencyFailed(g)

\* C5: a coroutine of execute_workflow sets a task RUNNING and calls the
\* executor (first attempt or retry) only if no task among the transitive
\* dependencies of that task is FAILED or CANCELLED.
C5_NoExecutionBehindFailedDependency ==
    [][ \A t \in TaskIds :
            StartsTask(<<"wf", t>>) =>
                \A d \in DepsOf(t) : StatusOf(d) \notin {FAILED, CANCELLED} ]_vars

\* C5 witness: execute_workflow launched a task one of whose dependencies
\* had failed (it was promoted by the success of another dependency); the
\* launch stopped at the dependency check and the executor never ran.
C5_Witness ==
    \E t \in Members :
        /\ co[<<"wf", t>>].pc = "raised"
        /\ co[<<"wf", t>>].exc[1] = "Dependency not satisfied"
        /\ \E d \in DepsOf(t) : FailedInWorkflow(d) /\ StatusOf(d) = FAILED
        /\ objs[get_task(tasks, t)].execution_trace = <<>>

\* C6: when execute_workflow returns (the workflow being a DAG), results has
\* an entry for every task id of the workflow and for nothing else.
C6_ResultsCoverWorkflow ==
    (wf.pc = "done" /\ Acyclic) => DOMAIN wf.results = Members

\* C10: once cancel_workflow has returned during execute_workflow, no member
\* is PENDING or RUNNING any more (every such member was cancelled and
\* reported, none is started afterwards), and when execute_workflow returns
\* every reported member is CANCELLED.
C10_WorkflowCancellationPropagates ==
    (ret.op = "cancel_workflow" /\ ret.exc = None) =>
        /\ \A t \in Members : StatusOf(t) \notin {PENDING, RUNNING}
        /\ wf.pc = "done" => \A i \in DOMAIN ret.val : StatusOf(ret.val[i]) = CANCELLED

\* Every dependency of a task of the workflow is a task of the workflow.
Closed ==
    \A t \in Members : Range(objs[get_task(tasks, t)].dependencies) \subseteq Members

\* execute_workflow has returned, every task is COMPLETED and results holds
\* the result of every task.
AllCompleted ==
    /\ wf.pc = "done"
    /\ \A t \in Members : StatusOf(t) = COMPLETED
    /\ DOMAIN wf.results = Members
    /\ \A t \in Members : wf.results[t] = TheResult

\* C7 as stated, its final result: for an acyclic workflow whose executor
\* always succeeds, execute_workflow returns with every task COMPLETED and
\* in results.
C7_AcyclicWorkflowCompletes ==
    (wf.pc = "done" /\ Acyclic) => AllCompleted

\* C7 amended: for a workflow that is acyclic, whose tasks depend only on
\* tasks of the workflow and whose executor always succeeds, execute_workflow
\* eventually returns with every task COMPLETED and in results, and each task
\* was started only when each of its dependencies was COMPLETED.
C7_ClosedAcyclicWorkflowCompletes ==
    /\ (wf.pc = "gather" /\ Acyclic /\ Closed) ~> AllCompleted
    /\ [][ \A t \in TaskIds :
               StartsTask(<<"wf", t>>) =>
                   /\ objs[co'[<<"wf", t>>].task].execution_trace = <<>>
                   /\ \A d \in Range(objs[co'[<<"wf", t>>].task].dependencies) :
                          /\ StatusOf(d) = COMPLETED
                          /\ objs[get_task(tasks, d)].execution_trace = <<TRUE>> ]_vars

\* C7 witness: the chain A <- B <- C has run, round after round, to the end.
C7_Witness ==
    /\ AllCompleted
    /\ Cardinality(Members) = 3
    /\ \E t \in Members : Len(objs[get_task(tasks, t)].dependencies) = 1
                          /\ \E u \in Members : objs[get_task(tasks, u)].dependencies = <<t>>

\* C8: retry policy of execute_task.  For every task: retry_count is the
\* number of failed attempts; while an attempt is in the executor the task is
\* RUNNING, all earlier attempts failed and (if any failed) retry_count <
\* max_retries; otherwise a task that was attempted is COMPLETED after k
\* failures and one success with retry_count = k (k = 0 or k < max_retries),
\* or FAILED after only failures with retry_count >= max_retries reached at
\* the last one; a task is RUNNING only while an attempt is in the executor.
Failures(tr) == Cardinality({ i \in DOMAIN tr : ~tr[i] })

C8_RetryPolicy ==
    \A o \in DOMAIN objs :
        LET t == objs[o]
            tr == t.execution_trace
            k == Failures(tr)
            active == \E c \in Slots : InExecutor(c, o)
        IN  /\ t.retry_count = k
            /\ (t.status = RUNNING) <=> active
            /\ active => /\ k = Len(tr)
                         /\ (k = 0 \/ k < t.max_retries)
            /\ (~active /\ tr # <<>>) =>
                   IF tr[Len(tr)]
                   THEN /\ t.status = COMPLETED
                        /\ k = Len(tr) - 1
                        /\ (k = 0 \/ k < t.max_retries)
                   ELSE /\ t.status = FAILED
                        /\ k = Len(tr)
                        /\ k >= t.max_retries
                        /\ (k = 1 \/ k = t.max_retries)
            /\ (tr = <<>> /\ ~active) => t.status = PENDING

\* C8 witness: a task with max_retries = 2 failed once, was retried and
\* succeeded: COMPLETED with retry_count = 1 after 2 attempts; another task
\* failed on every attempt and is FAILED.
C8_Witness ==
    /\ \E o \in DOMAIN objs :
           /\ objs[o].execution_trace = <<FALSE, TRUE>>
           /\ objs[o].status = COMPLETED /\ objs[o].retry_count = 1
           /\ objs[o].max_retries = 2
    /\ \E o \in DOMAIN objs :
           /\ objs[o].status = FAILED
           /\ objs[o].execution_trace = <<FALSE, FALSE>>

\* --------------------------------------------------- duplicate submissions
\* C11: submitting a task whose id is already in the task table is an error
\* and leaves the existing task in place: the object stored under an id that
\* is present is never replaced by another object (so its status, result and
\* retry_count stay those of the existing task).
C11_DuplicateSubmitRejected ==
    [][\A id \in TaskIds : tasks[id] # 0 => tasks'[id] = tasks[id]]_vars

\* ==========================================================================
\* Resource optimization layer: src/optimization/resource_optimization.py
\* ==========================================================================
\* Credit amounts are counted in whole units (one unit is the smallest amount
\* a caller passes); the ledger only adds, subtracts and compares them.

\* Number of records the usage history may hold (successful calls).
MaxHistory == 3

Components == {"c1", "c2"}
\* The amount arguments callers pass: negative, zero and positive.
Amounts == -1..2
\* CreditManager(initial_balance, budget_limit) as constructed by callers.
InitialBalances == {0, 3}
BudgetLimits == {None, <<2>>}

\* ------------------------------------------------------------ CreditManager
\* CreditManager.get_allocation: self.allocations.get(component_id, 0.0)
get_allocation(al, c) == IF c \in DOMAIN al THEN al[c] ELSE 0

\* The ledger as a value: the fields a call reads and writes.
Ledger == [ balance |-> balance, allocations |-> allocations,
            usage_history |-> usage_history ]

\* allocate_credits refusing an allocation that reaches the limit exactly.
allocate_creditsStrict(st, limit, c, amount) ==
    IF limit # None /\ st.balance + amount >= limit[1]
    THEN [ ok |-> FALSE, st |-> st ]
    ELSE LET al == (c :> (get_allocation(st.allocations, c) + amount)) @@ st.allocations
             b  == st.balance + amount
         IN  [ ok |-> TRUE,
               st |-> [ balance |-> b, allocations |-> al,
                        usage_history |-> Append(st.usage_history,
                            [ component_id |-> c, action |-> "allocate",
                              amount |-> amount, balance |-> b ]) ] ]

\* CreditManager.allocate_credits: the returned boolean and the ledger after.
allocate_credits(st, limit, c, amount) ==
    IF limit # None /\ st.balance + amount > limit[1]
    THEN [ ok |-> FALSE, st |-> st ]
    ELSE LET al == (c :> (get_allocation(st.allocations, c) + amount)) @@ st.allocations
             b  == st.balance + amount
         IN  [ ok |-> TRUE,
               st |-> [ balance |-> b, allocations |-> al,
                        usage_history |-> Append(st.usage_history,
                            [ component_id |-> c, action |-> "allocate",
                              amount |-> amount, balance |-> b ]) ] ]

\* use_credits without the allocation check.
use_creditsUnchecked(st, c, amount) ==
    LET allocation == get_allocation(st.allocations, c)
        al == (c :> (allocation - amount)) @@ st.allocations
    IN  [ ok |-> TRUE,
          st |-> [ st EXCEPT !.allocations = al,
                             !.usage_history = Append(st.usage_history,
                                 [ component_id |-> c, action |-> "use",
                                   amount |-> amount,
                                   allocation_remaining |-> al[c] ]) ] ]

\* use_credits deducting from the global balance as well.
use_creditsFromBalance(st, c, amount) ==
    LET allocation == get_allocation(st.allocations, c)
    IN  IF allocation < amount
        THEN [ ok |-> FALSE, st |-> st ]
        ELSE LET al == (c :> (allocation - amount)) @@ st.allocations
             IN  [ ok |-> TRUE,
                   st |-> [ st EXCEPT !.allocations = al,
                                      !.balance = st.balance - amount,
                                      !.usage_history = Append(st.usage_history,
                                          [ component_id |-> c, action |-> "use",
                                            amount |-> amount,
                                            allocation_remaining |-> al[c] ]) ] ]

\* CreditManager.use_credits: the returned boolean and the ledger after.
use_credits(st, c, amount) ==
    LET allocation == get_allocation(st.allocations, c)
    IN  IF allocation < amount
        THEN [ ok |-> FALSE, st |-> st ]
        ELSE LET al == (c :> (allocation - amount)) @@ st.allocations
             IN  [ ok |-> TRUE,
                   st |-> [ st EXCEPT !.allocations = al,
                                      !.usage_history = Append(st.usage_history,
                                          [ component_id |-> c, action |-> "use",
                                            amount |-> amount,
                                            allocation_remaining |-> al[c] ]) ] ]

SetLedger(st) ==
    /\ balance' = st.balance
    /\ allocations' = st.allocations
    /\ usage_history' = st.usage_history
    /\ UNCHANGED budget_limit

\* A caller's allocate_credits(c, amount) call.
Allocate(c, amount) ==
    /\ Len(usage_history) < MaxHistory
    /\ LET r == allocate_credits(Ledger, budget_limit, c, amount)
       IN  /\ SetLedger(r.st)
           /\ ret' = [ op |-> "allocate_credits", arg |-> <<c, amount>>,
                       val |-> r.ok, exc |-> None ]
    /\ UNCHANGED <<objs, tasks, workflows, co, wf, bgVars, threads, selVars, schedVars>>

\* A caller's use_credits(c, amount) call.
Use(c, amount) ==
    /\ Len(usage_history) < MaxHistory
    /\ LET r == use_credits(Ledger, c, amount)
       IN  /\ SetLedger(r.st)
           /\ ret' = [ op |-> "use_credits", arg |-> <<c, amount>>,
                       val |-> r.ok, exc |-> None ]
    /\ UNCHANGED <<objs, tasks, workflows, co, wf, bgVars, threads, selVars, schedVars>>

\* The ledger used by sequential callers, constructed with any of the
\* initial balances and budget limits.
InitLedger ==
    /\ InitOrchestrator
    /\ \E b \in InitialBalances, l \in BudgetLimits : InitCreditManager(b, l)
    /\ InitThreads
    /\ InitSelector(<<>>)
    /\ InitScheduler
    /\ InitBackground

NextLedger ==
    \/ \E c \in Components, a \in Amounts : Allocate(c, a)
    \/ \E c \in Components, a \in Amounts : Use(c, a)

SpecLedger == InitLedger /\ [][NextLedger]_vars

\* ----------------------------------------------------------- ledger claims
\* The step is a call op(c, a) that has just returned.
LedgerCall(op, c, a) ==
    /\ ret'.op = op
    /\ ret'.arg = <<c, a>>
    /\ (ret.op # op \/ ret' # ret \/ usage_history' # usage_history)

Last(s) == s[Len(s)]
OthersUnchanged(c) ==
    \A d \in Components \ {c} :
        get_allocation(allocations', d) = get_allocation(allocations, d)

\* C12: the allocation of every component is >= 0 after any sequence of
\* allocate and use calls, whatever the amounts (zero and negative included).
C12_AllocationNonNegative ==
    \A c \in Components : get_allocation(allocations, c) >= 0

\* C13: when a budget limit is set, the balance is <= the limit in every
\* state from construction on, whatever the initial balance.
C13_BalanceWithinBudget ==
    budget_limit # None => balance <= budget_limit[1]

\* C14: allocate(c, a) fails exactly when a limit is set and balance + a
\* exceeds it; a failed call returns false without raising and leaves
\* balance, allocations and history unchanged; a successful one adds a to
\* the balance and to c's allocation and appends exactly one ALLOCATE record.
C14_AllocateContract ==
    [][\A c \in Components, a \in Amounts :
        LedgerCall("allocate_credits", c, a) =>
          LET fails == budget_limit # None /\ balance + a > budget_limit[1]
          IN  /\ ret'.exc = None
              /\ ret'.val = ~fails
              /\ fails => UNCHANGED ledgerVars
              /\ ~fails =>
                    /\ balance' = balance + a
                    /\ get_allocation(allocations', c) = get_allocation(allocations, c) + a
                    /\ OthersUnchanged(c)
                    /\ Len(usage_history') = Len(usage_history) + 1
                    /\ SubSeq(usage_history', 1, Len(usage_history)) = usage_history
                    /\ Last(usage_history').action = "allocate"
                    /\ Last(usage_history').component_id = c
                    /\ Last(usage_history').amount = a
                    /\ UNCHANGED budget_limit]_vars

\* C14 witness: with a limit set, an allocation that brought the balance
\* exactly to the limit succeeded and the next allocation was refused.
C14_Witness ==
    /\ budget_limit # None
    /\ ret.op = "allocate_credits" /\ ~ret.val
    /\ usage_history # <<>>
    /\ Last(usage_history).action = "allocate"
    /\ balance = budget_limit[1]

\* C15: use(c, a) succeeds iff c's allocation is >= a; on success it deducts
\* exactly a from c's allocation and appends one USE record, leaving the
\* balance and every other allocation unchanged; on failure it returns false
\* and changes nothing.
C15_UseContract ==
    [][\A c \in Components, a \in Amounts :
        LedgerCall("use_credits", c, a) =>
          LET ok == get_allocation(allocations, c) >= a
          IN  /\ ret'.exc = None
              /\ ret'.val = ok
              /\ ~ok => UNCHANGED ledgerVars
              /\ ok =>
                    /\ get_allocation(allocations', c) = get_allocation(allocations, c) - a
                    /\ OthersUnchanged(c)
                    /\ balance' = balance
                    /\ Len(usage_history') = Len(usage_history) + 1
                    /\ SubSeq(usage_history', 1, Len(usage_history)) = usage_history
                    /\ Last(usage_history').action = "use"
                    /\ Last(usage_history').component_id = c
                    /\ Last(usage_history').amount = a
                    /\ UNCHANGED budget_limit]_vars

\* C15 witness: a use of the whole allocation of one component has just
\* succeeded while another component holds credits.
C15_Witness ==
    /\ ret.op = "use_credits" /\ ret.val /\ ret.arg[2] > 0
    /\ usage_history # <<>>
    /\ Last(usage_history).action = "use"
    /\ Last(usage_history).amount > 0
    /\ Last(usage_history).allocation_remaining = 0
    /\ \E d \in Components \ {Last(usage_history).component_id} :
           get_allocation(allocations, d) > 0

RECURSIVE NetAllocated(_, _, _)
NetAllocated(h, c, n) ==
    IF n = 0 THEN 0
    ELSE NetAllocated(h, c, n - 1) +
         (IF h[n].component_id # c THEN 0
          ELSE IF h[n].action = "allocate" THEN h[n].amount ELSE 0 - h[n].amount)

SetThread(t, pc, tmp, val) ==
    threads' = [ threads EXCEPT ![t].pc = pc, ![t].tmp = tmp, ![t].val = val ]

ThreadFrame == <<objs, tasks, workflows, co, wf, ret, budget_limit, selVars, schedVars,
                 bgVars>>

\* Thread t enters allocate_credits(c, a) or use_credits(c, a).
ThreadCall(t, op, c, a) ==
    /\ threads[t].pc = "idle"
    /\ threads' = [ threads EXCEPT ![t] = [ pc |-> "start", op |-> op, c |-> c,
                                            amount |-> a, tmp |-> 0, val |-> FALSE ] ]
    /\ UNCHANGED <<ThreadFrame, balance, allocations, usage_history>>

\* line 57: if self.budget_limit is not None and self.balance + amount > limit
AllocateCheck(t) ==
    /\ threads[t].pc = "start" /\ threads[t].op = "allocate_credits"
    /\ IF budget_limit # None /\ balance + threads[t].amount > budget_limit[1]
       THEN SetThread(t, "done", 0, FALSE)
       ELSE SetThread(t, "load_allocation", 0, FALSE)
    /\ UNCHANGED <<ThreadFrame, balance, allocations, usage_history>>

\* line 60, right-hand side: self.allocations.get(component_id, 0.0) + amount
AllocateLoadAllocation(t) ==
    /\ threads[t].pc = "load_allocation"
    /\ SetThread(t, "store_allocation",
                 get_allocation(allocations, threads[t].c) + threads[t].amount, FALSE)
    /\ UNCHANGED <<ThreadFrame, balance, allocations, usage_history>>

\* line 60, assignment: self.allocations[component_id] = ...
AllocateStoreAllocation(t) ==
    /\ threads[t].pc = "store_allocation"
    /\ allocations' = (threads[t].c :> threads[t].tmp) @@ allocations
    /\ SetThread(t, "load_balance", 0, FALSE)
    /\ UNCHANGED <<ThreadFrame, balance, usage_history>>

\* line 61, load: self.balance + amount
AllocateLoadBalance(t) ==
    /\ threads[t].pc = "load_balance"
    /\ SetThread(t, "store_balance", balance + threads[t].amount, FALSE)
    /\ UNCHANGED <<ThreadFrame, balance, allocations, usage_history>>

\* line 61, store: self.balance = ...
AllocateStoreBalance(t) ==
    /\ threads[t].pc = "store_balance"
    /\ balance' = threads[t].tmp
    /\ SetThread(t, "append_allocate", 0, FALSE)
    /\ UNCHANGED <<ThreadFrame, allocations, usage_history>>

\* lines 63-71: self.usage_history.append({... "balance": self.balance}); return True
AllocateAppend(t) ==
    /\ threads[t].pc = "append_allocate"
    /\ usage_history' = Append(usage_history,
           [ component_id |-> threads[t].c, action |-> "allocate",
             amount |-> threads[t].amount, balance |-> balance ])
    /\ SetThread(t, "done", 0, TRUE)
    /\ UNCHANGED <<ThreadFrame, balance, allocations>>

\* lines 84-87: allocation = self.allocations.get(...); if allocation < amount
UseCheck(t) ==
    /\ threads[t].pc = "start" /\ threads[t].op = "use_credits"
    /\ LET allocation == get_allocation(allocations, threads[t].c)
       IN  IF allocation < threads[t].amount
           THEN SetThread(t, "done", 0, FALSE)
           ELSE SetThread(t, "store_use", allocation, FALSE)
    /\ UNCHANGED <<ThreadFrame, balance, allocations, usage_history>>

\* line 89: self.allocations[component_id] = allocation - amount
UseStore(t) ==
    /\ threads[t].pc = "store_use"
    /\ allocations' = (threads[t].c :> (threads[t].tmp - threads[t].amount)) @@ allocations
    /\ SetThread(t, "append_use", 0, FALSE)
    /\ UNCHANGED <<ThreadFrame, balance, usage_history>>

\* lines 91-99: self.usage_history.append({... self.allocations[component_id]})
UseAppend(t) ==
    /\ threads[t].pc = "append_use"
    /\ usage_history' = Append(usage_history,
           [ component_id |-> threads[t].c, action |-> "use",
             amount |-> threads[t].amount,
             allocation_remaining |-> allocations[threads[t].c] ])
    /\ SetThread(t, "done", 0, TRUE)
    /\ UNCHANGED <<ThreadFrame, balance, allocations>>

\* A ledger constructed with balance 0 and any budget limit, on which every
\* thread makes one call.
InitThreaded ==
    /\ InitOrchestrator
    /\ \E l \in BudgetLimits : InitCreditManager(0, l)
    /\ InitThreads
    /\ InitSelector(<<>>)
    /\ InitScheduler
    /\ InitBackground

\* The threads pass positive amounts only.
PositiveAmounts == { a \in Amounts : a > 0 }

NextThreaded ==
    \/ \E t \in Threads, op \in {"allocate_credits", "use_credits"},
          c \in Components, a \in PositiveAmounts : ThreadCall(t, op, c, a)
    \/ \E t \in Threads : AllocateCheck(t)
    \/ \E t \in Threads : AllocateLoadAllocation(t)
    \/ \E t \in Threads : AllocateStoreAllocation(t)
    \/ \E t \in Threads : AllocateLoadBalance(t)
    \/ \E t \in Threads : AllocateStoreBalance(t)
    \/ \E t \in Threads : AllocateAppend(t)
    \/ \E t \in Threads : UseCheck(t)
    \/ \E t \in Threads : UseStore(t)
    \/ \E t \in Threads : UseAppend(t)

SpecThreaded == InitThreaded /\ [][NextThreaded]_vars

\* The same calls made one after the other, in the given order of threads.
RECURSIVE RunInOrder(_, _)
RunInOrder(st, order) ==
    IF order = <<>> THEN st
    ELSE LET f == threads[Head(order)]
             r == IF f.op = "allocate_credits"
                  THEN allocate_credits(st, budget_limit, f.c, f.amount)
                  ELSE use_credits(st, f.c, f.amount)
         IN  RunInOrder(r.st, Tail(order))

ThreadOrders ==
    { o \in [1..Cardinality(Threads) -> Threads] :
        \A i, j \in DOMAIN o : i # j => o[i] # o[j] }

AllReturned == \A t \in Threads : threads[t].pc = "done"

\* C17: ledger mutations are serialized: when concurrent allocate and use
\* calls have all returned, balance, allocations and history are those some
\* sequential order of the same calls produces (so no race between a check
\* and its update can break the budget limit).
C17_CallsSerialized ==
    AllReturned =>
        \E o \in ThreadOrders :
            LET st == RunInOrder([ balance |-> 0, allocations |-> <<>>,
                                  usage_history |-> <<>> ], o)
            IN  /\ st.balance = balance
                /\ \A c \in Components :
                       get_allocation(st.allocations, c) = get_allocation(allocations, c)
                /\ st.usage_history = usage_history

\* -------------------------------------------------------- CostAwareSelector
\* Stable sort of a sequence of <<key, item>> pairs by key, as list.sort(key=)
\* does: keys are tuples of integers compared lexicographically; items with
\* equal keys keep their order.
RECURSIVE KeyLess(_, _)
KeyLess(k1, k2) ==
    IF k1 = <<>> \/ k2 = <<>> THEN k1 = <<>> /\ k2 # <<>>
    ELSE IF Head(k1) # Head(k2) THEN Head(k1) < Head(k2)
    ELSE KeyLess(Tail(k1), Tail(k2))

\* e goes before the first pair whose key is greater than e's.
InsertByKey(s, e) ==
    LET later == { i \in DOMAIN s : KeyLess(e[1], s[i][1]) }
    IN  IF later = {} THEN Append(s, e)
        ELSE LET i == CHOOSE x \in later : \A y \in later : x <= y
             IN  SubSeq(s, 1, i - 1) \o <<e>> \o SubSeq(s, i, Len(s))

RECURSIVE SortByKey(_)
SortByKey(s) ==
    IF s = <<>> THEN <<>>
    ELSE InsertByKey(SortByKey(SubSeq(s, 1, Len(s) - 1)), s[Len(s)])

\* ModelCapability values requirements ask for.
Capabilities == {"X", "Y"}
\* What estimate_cost(model, standard_prompt) returns, in credits.
Costs == {1, 2}
\* "Default if no models found" of _estimate_provider_cost, in credits.
DefaultCost == 1

\* The models of a provider: one or two, each with its capabilities and
\* its cost estimate; a model's id is its position in the list.
ModelChoices == [ caps : SUBSET Capabilities \ {{}}, cost : Costs ]
ModelLists == { <<m>> : m \in ModelChoices } \cup
              { <<m1, m2>> : m1 \in ModelChoices, m2 \in ModelChoices }
ProviderIds == <<"P1", "P2">>
\* ProviderRegistry contents: P1 alone, or P1 and a P2 with a single model,
\* registered in this order.
Registries ==
    { <<[ id |-> ProviderIds[1], models |-> ms ]>> : ms \in ModelLists } \cup
    { <<[ id |-> ProviderIds[1], models |-> ms ], [ id |-> ProviderIds[2], models |-> <<m>> ]>> :
        ms \in ModelLists, m \in ModelChoices }
\* requirements["max_cost"]: absent or a number of credits.
MaxCosts == {None, <<1>>}

NoProviderCapabilities == <<"No provider found with required capabilities">>
NoProviderWithinCost == <<"No provider found within cost constraints">>
InsufficientCredits == <<"Insufficient credits for provider selection">>

\* lines 237-250: every required capability is offered by some model of p.
has_all_capabilities(p, required) ==
    \A capability \in required :
        \E i \in DOMAIN p.models : capability \in p.models[i].caps

\* The models _estimate_provider_cost prices: those with all(cap in
\* model_capabilities for cap in requirements["capabilities"]).
PricedModels(p, required) ==
    { i \in DOMAIN p.models : required \subseteq p.models[i].caps }

\* line 344-357: the cached cost, else provider.estimate_cost
ModelCost(cache, p, i) ==
    IF <<p.id, i>> \in DOMAIN cache THEN cache[<<p.id, i>>] ELSE p.models[i].cost

MinOf(S) == CHOOSE x \in S : \A y \in S : x <= y

\* CostAwareSelector._estimate_provider_cost: the value returned.
_estimate_provider_cost(cache, p, required) ==
    IF PricedModels(p, required) = {} THEN DefaultCost
    ELSE MinOf({ ModelCost(cache, p, i) : i \in PricedModels(p, required) })

\* CostAwareSelector._estimate_provider_cost: the cache after the call.
CacheAfterEstimate(cache, p, required) ==
    [ k \in DOMAIN cache \cup { <<p.id, i>> : i \in PricedModels(p, required) } |->
        IF k \in DOMAIN cache THEN cache[k] ELSE p.models[k[2]].cost ]

RECURSIVE CacheAfterRanking(_, _, _)
CacheAfterRanking(cache, candidates, required) ==
    IF candidates = <<>> THEN cache
    ELSE CacheAfterRanking(CacheAfterEstimate(cache, Head(candidates), required),
                           Tail(candidates), required)

\* CostAwareSelector._rank_by_cost
_rank_by_cost(cache, candidates, required, max_cost) ==
    LET cost(i) == _estimate_provider_cost(cache, candidates[i], required)
        kept == SelectSeq([ i \in DOMAIN candidates |-> i ],
                          LAMBDA i : ~(max_cost # None /\ cost(i) > max_cost[1]))
        provider_costs == [ k \in DOMAIN kept |-> << <<cost(kept[k])>>, candidates[kept[k]] >> ]
        sorted == SortByKey(provider_costs)
    IN  [ k \in DOMAIN sorted |-> sorted[k][2] ]

\* CostAwareSelector.select_provider(component_id, {"capabilities": required,
\* "max_cost": max_cost}): the provider id returned or the ValueError raised,
\* with the ledger and the cost cache after the call.
select_provider(st, limit, cache, providers, c, required, max_cost) ==
    LET candidate_providers == SelectSeq(providers, LAMBDA p : has_all_capabilities(p, required))
        ranked_candidates == _rank_by_cost(cache, candidate_providers, required, max_cost)
        cache2 == CacheAfterRanking(cache, candidate_providers, required)
    IN  IF candidate_providers = <<>>
        THEN [ val |-> "none", exc |-> NoProviderCapabilities, st |-> st, cache |-> cache ]
        ELSE IF ranked_candidates = <<>>
        THEN [ val |-> "none", exc |-> NoProviderWithinCost, st |-> st, cache |-> cache2 ]
        ELSE LET provider == ranked_candidates[1]
                 estimated_cost == _estimate_provider_cost(cache2, provider, required)
             IN  IF get_allocation(st.allocations, c) >= estimated_cost
                 THEN [ val |-> provider.id, exc |-> None, st |-> st, cache |-> cache2 ]
                 ELSE LET r == allocate_credits(st, limit, c, estimated_cost)
                      IN  IF r.ok
                          THEN [ val |-> provider.id, exc |-> None, st |-> r.st, cache |-> cache2 ]
                          ELSE [ val |-> "none", exc |-> InsufficientCredits, st |-> st,
                                 cache |-> cache2 ]

\* A caller's select_provider call.
Select(c, required, max_cost) ==
    /\ LET r == select_provider(Ledger, budget_limit, cost_cache, registry, c, required, max_cost)
       IN  /\ SetLedger(r.st)
           /\ cost_cache' = r.cache
           /\ ret' = [ op |-> "select_provider", arg |-> <<c, required, max_cost>>,
                       val |-> r.val, exc |-> r.exc ]
    /\ UNCHANGED <<objs, tasks, workflows, co, wf, bgVars, threads, registry, schedVars>>

\* A selector over any of the registries and a ledger constructed with
\* balance 0 and any of the budget limits.
InitSelection ==
    /\ InitOrchestrator
    /\ \E l \in BudgetLimits : InitCreditManager(0, l)
    /\ InitThreads
    /\ \E providers \in Registries : InitSelector(providers)
    /\ InitScheduler
    /\ InitBackground

\* The component the selections are made for.
SelectingComponents == {"c1"}

NextSelection ==
    \E c \in SelectingComponents, required \in SUBSET Capabilities, max_cost \in MaxCosts :
        Select(c, required, max_cost)

SpecSelection == InitSelection /\ [][NextSelection]_vars

\* --------------------------------------------------------- selector claims
ProviderById(pid) == CHOOSE p \in Range(registry) : p.id = pid

\* The models of p that have every required capability, and the providers
\* that have such a model.
CapableModels(p, required) ==
    { i \in DOMAIN p.models : \A cap \in required : cap \in p.models[i].caps }
CapableProviders(required) ==
    { p \in Range(registry) : CapableModels(p, required) # {} }
\* The cost estimate of a capable provider: its cheapest capable model.
Estimate(p, required) ==
    MinOf({ p.models[i].cost : i \in CapableModels(p, required) })
AffordableProviders(required, max_cost) ==
    { p \in CapableProviders(required) :
        max_cost = None \/ Estimate(p, required) <= max_cost[1] }

\* The step is a select_provider(c, {capabilities: required, max_cost}) call.
SelectCall(c, required, max_cost) ==
    /\ ret'.op = "select_provider"
    /\ ret'.arg = <<c, required, max_cost>>

\* C18: select returns a provider of smallest cost estimate among the
\* providers that meet the required capabilities within max_cost; it fails
\* with "no provider" iff no provider meets the capabilities, and with "not
\* affordable" (cost constraints, insufficient credits) iff capable providers
\* exist but all exceed max_cost or the ledger refuses to allocate the
\* estimate.
C18_SelectsCheapestCapable ==
    [][\A c \in SelectingComponents, required \in SUBSET Capabilities, max_cost \in MaxCosts :
        SelectCall(c, required, max_cost) =>
          LET capable == CapableProviders(required)
              affordable == AffordableProviders(required, max_cost)
              best == MinOf({ Estimate(p, required) : p \in affordable })
              refused == /\ affordable # {}
                         /\ get_allocation(allocations, c) < best
                         /\ budget_limit # None
                         /\ balance + best > budget_limit[1]
          IN  /\ ret'.exc = None =>
                    /\ ProviderById(ret'.val) \in affordable
                    /\ Estimate(ProviderById(ret'.val), required) = best
              /\ ret'.exc = NoProviderCapabilities <=> capable = {}
              /\ ret'.exc \in {NoProviderWithinCost, InsufficientCredits} <=>
                    (capable # {} /\ (affordable = {} \/ refused))]_vars

\* C19: the provider select returns has a single model whose capabilities
\* contain every required capability, and the cost estimate used for it is
\* the minimum over such models.
C19_ReturnedProviderHasCapableModel ==
    (ret.op = "select_provider" /\ ret.exc = None) =>
        LET p == ProviderById(ret.val)
            required == ret.arg[2]
        IN  /\ CapableModels(p, required) # {}
            /\ _estimate_provider_cost(cost_cache, p, required) = Estimate(p, required)

\* ------------------------------------------------- PredictiveBatchScheduler
\* time.time() is read in clock ticks (now); int(time.time()) is the whole
\* second the tick falls in.  Credits are counted in units of which
\* CreditsPerTask make the 0.01 credits of the default estimate, so that the
\* averages and the linear scaling of the predictions are whole numbers.

\* The clock readings the calls are made at.
MaxTime == 3
\* Clock ticks per second.
TicksPerSecond == 3
\* predict_resource_usage: "credits": batch_size * 0.01
CreditsPerTask == 12
\* record_workload: the history is trimmed to its last 1000 samples.
HistoryCap == 1000

SchedulingComponents == {"c1"}
BatchSizes == {1, 2}
Priorities == {1, 2}
\* deadline: None or a timestamp.
Deadlines == {None, <<9>>}
\* resource_usage["credits"] reported to complete_batch: the key may be absent.
ActualCredits == {None, <<2 * CreditsPerTask>>}

InsufficientCreditsForBatch == <<"Insufficient credits for batch scheduling">>
ScheduleIdNotFound(id) == <<"Schedule ID not found", id>>

\* resource_usage.get("credits", 0.0)
CreditsOf(usage) == IF usage = None THEN 0 ELSE usage[1]

RECURSIVE SumCredits(_)
SumCredits(samples) ==
    IF samples = <<>> THEN 0
    ELSE CreditsOf(Head(samples).resource_usage) + SumCredits(Tail(samples))

Abs(x) == IF x < 0 THEN 0 - x ELSE x

\* 0.8 * batch_size <= entry["batch_size"] <= 1.2 * batch_size
Similar(history, n) ==
    SelectSeq(history, LAMBDA e : 8 * n <= 10 * e.batch_size /\ 10 * e.batch_size <= 12 * n)

\* min(self.workload_history, key=abs(batch_size difference)): the first of
\* the closest samples.
Closest(history, n) ==
    LET best == { i \in DOMAIN history :
                    \A j \in DOMAIN history :
                        Abs(history[i].batch_size - n) <= Abs(history[j].batch_size - n) }
    IN  history[CHOOSE i \in best : \A j \in best : i <= j]

\* PredictiveBatchScheduler.predict_resource_usage, its "credits" entry:
\* None when the predicted dictionary has no such key.
predict_credits(history, n) ==
    IF history = <<>> THEN <<n * CreditsPerTask>>
    ELSE LET similar_batches == Similar(history, n)
         IN  IF similar_batches # <<>>
             THEN IF similar_batches[1].resource_usage = None THEN None
                  ELSE <<SumCredits(similar_batches) \div Len(similar_batches)>>
             ELSE LET closest_entry == Closest(history, n)
                  IN  IF closest_entry.resource_usage = None THEN None
                      ELSE <<(closest_entry.resource_usage[1] * n) \div closest_entry.batch_size>>

\* float("inf") as a deadline key: later than every deadline.
Infinity == 1000000

\* A sort key that leaves the deadline out.
sort_keyPriorityOnly(entry) == << 0 - entry.priority >>

\* PredictiveBatchScheduler._sort_schedule: the key of an entry
sort_key(entry) ==
    << 0 - entry.priority,
       IF entry.deadline # None THEN entry.deadline[1] ELSE Infinity >>

_sort_schedule(schedule) ==
    LET sorted == SortByKey([ i \in DOMAIN schedule |-> <<sort_key(schedule[i]), schedule[i]>> ])
    IN  [ i \in DOMAIN sorted |-> sorted[i][2] ]

\* PredictiveBatchScheduler.record_workload
record_workload(history, batch_size, execution_time, resource_usage) ==
    LET h == Append(history, [ batch_size |-> batch_size, execution_time |-> execution_time,
                               resource_usage |-> resource_usage ])
    IN  IF Len(h) > HistoryCap THEN SubSeq(h, Len(h) - HistoryCap + 1, Len(h)) ELSE h

\* PredictiveBatchScheduler.schedule_batch.  The entry keeps the fields the
\* queue operations read (predicted_time and predicted_resources are carried
\* along by the code and read by no queue operation).
ScheduleBatch(c, batch_size, priority, deadline) ==
    /\ now < MaxTime
    /\ LET required_credits == CreditsOf(predict_credits(workload_history, batch_size))
           enough == get_allocation(allocations, c) >= required_credits
           r == IF enough THEN [ ok |-> TRUE, st |-> Ledger ]
                ELSE allocate_credits(Ledger, budget_limit, c, required_credits)
           schedule_entry ==
               [ schedule_id |-> <<now \div TicksPerSecond, Len(current_schedule)>>,
                 component_id |-> c, batch_size |-> batch_size, priority |-> priority,
                 deadline |-> deadline, scheduled_at |-> now, status |-> "scheduled" ]
       IN  IF ~r.ok
           THEN /\ ret' = [ op |-> "schedule_batch", arg |-> <<c, batch_size>>,
                            val |-> None, exc |-> InsufficientCreditsForBatch ]
                /\ UNCHANGED <<ledgerVars, schedVars>>
           ELSE /\ SetLedger(r.st)
                /\ current_schedule' = _sort_schedule(Append(current_schedule, schedule_entry))
                /\ now' = now + 1
                /\ ret' = [ op |-> "schedule_batch", arg |-> <<c, batch_size, priority, deadline>>,
                            val |-> schedule_entry.schedule_id, exc |-> None ]
                /\ UNCHANGED workload_history
    /\ UNCHANGED <<objs, tasks, workflows, co, wf, bgVars, threads, selVars>>

\* PredictiveBatchScheduler.get_next_batch
GetNextBatch ==
    /\ IF current_schedule = <<>>
       THEN /\ ret' = [ op |-> "get_next_batch", arg |-> <<>>, val |-> None, exc |-> None ]
            /\ UNCHANGED current_schedule
       ELSE /\ current_schedule' = [ current_schedule EXCEPT ![1].status = "executing" ]
            /\ ret' = [ op |-> "get_next_batch", arg |-> <<>>,
                        val |-> current_schedule[1].schedule_id, exc |-> None ]
    /\ UNCHANGED <<objs, tasks, workflows, co, wf, bgVars, threads, selVars, ledgerVars,
                   workload_history, now>>

\* What complete_batch is told: the execution time and the credits used.
ExecutionTimes == {1}
\* The schedule ids complete_batch is called with: those of the entries in
\* the schedule and one id that was never handed out.
UnknownScheduleId == <<0 - 1, 0>>
ScheduleIds == { current_schedule[i].schedule_id : i \in DOMAIN current_schedule }
                   \cup {UnknownScheduleId}

\* PredictiveBatchScheduler.complete_batch
CompleteBatch(schedule_id, execution_time, resource_usage) ==
    /\ LET found == { i \in DOMAIN current_schedule :
                        current_schedule[i].schedule_id = schedule_id }
       IN  IF found = {}
           THEN /\ ret' = [ op |-> "complete_batch", arg |-> <<schedule_id>>,
                            val |-> None, exc |-> ScheduleIdNotFound(schedule_id) ]
                /\ UNCHANGED <<ledgerVars, schedVars>>
           ELSE LET i == CHOOSE x \in found : \A y \in found : x <= y
                    entry == current_schedule[i]
                    r == use_credits(Ledger, entry.component_id, CreditsOf(resource_usage))
                IN  /\ workload_history' = record_workload(workload_history, entry.batch_size,
                                                           execution_time, resource_usage)
                    /\ SetLedger(r.st)
                    /\ current_schedule' = SubSeq(current_schedule, 1, i - 1) \o
                                           SubSeq(current_schedule, i + 1, Len(current_schedule))
                    /\ ret' = [ op |-> "complete_batch", arg |-> <<schedule_id>>,
                                val |-> None, exc |-> None ]
                    /\ UNCHANGED now
    /\ UNCHANGED <<objs, tasks, workflows, co, wf, bgVars, threads, selVars>>

\* Time passes between two calls.
Tick ==
    /\ now < MaxTime
    /\ now' = now + 1
    /\ UNCHANGED <<orchVars, bgVars, ledgerVars, threads, selVars, workload_history,
                   current_schedule>>

\* budget_limit of the ledger the scheduler draws on: the default credits of
\* three tasks.
SchedulerBudgetLimits == {<<3 * CreditsPerTask>>}

InitScheduling ==
    /\ InitOrchestrator
    /\ \E l \in SchedulerBudgetLimits : InitCreditManager(0, l)
    /\ InitThreads
    /\ InitSelector(<<>>)
    /\ InitScheduler
    /\ InitBackground

NextScheduling ==
    \/ \E c \in SchedulingComponents, n \in BatchSizes, p \in Priorities, d \in Deadlines :
          ScheduleBatch(c, n, p, d)
    \/ GetNextBatch
    \/ \E id \in ScheduleIds, t \in ExecutionTimes, u \in ActualCredits :
          CompleteBatch(id, t, u)
    \/ Tick

SpecScheduling == InitScheduling /\ [][NextScheduling]_vars

\* -------------------------------------------------------- scheduler claims
\* e1 is due before e2: higher priority, or the same priority and an earlier
\* deadline (no deadline counting as later than any deadline).
DueBefore(e1, e2) ==
    \/ e1.priority > e2.priority
    \/ /\ e1.priority = e2.priority
       /\ e1.deadline # None
       /\ (e2.deadline = None \/ e1.deadline[1] < e2.deadline[1])

\* C20: after every scheduler mutation the schedule queue is ordered by
\* (-priority, deadline ascending, an absent deadline last), and entries of
\* equal priority and deadline stand in the order they were scheduled in.
C20_ScheduleSorted ==
    \A i, j \in DOMAIN current_schedule :
        i < j =>
            /\ ~DueBefore(current_schedule[j], current_schedule[i])
            /\ ~DueBefore(current_schedule[i], current_schedule[j]) =>
                   current_schedule[i].scheduled_at < current_schedule[j].scheduled_at

\* C20 witness: three entries are queued, the head handed out by next; one
\* was scheduled after another yet stands before it, and two have the same
\* priority and deadline.
C20_Witness ==
    /\ Len(current_schedule) = 3
    /\ current_schedule[1].status = "executing"
    /\ \E i, j \in DOMAIN current_schedule :
           /\ i < j
           /\ current_schedule[i].scheduled_at > current_schedule[j].scheduled_at
           /\ current_schedule[i].priority = current_schedule[j].priority
    /\ \E i, j \in DOMAIN current_schedule :
           /\ i < j
           /\ current_schedule[i].priority = current_schedule[j].priority
           /\ current_schedule[i].deadline = current_schedule[j].deadline

\* The entry complete_batch finds for schedule_id: the first one with that id.
EntryOf(schedule_id) ==
    LET found == { i \in DOMAIN current_schedule :
                     current_schedule[i].schedule_id = schedule_id }
    IN  CHOOSE x \in found : \A y \in found : x <= y

KnownScheduleId(schedule_id) ==
    \E i \in DOMAIN current_schedule : current_schedule[i].schedule_id = schedule_id

\* C21: complete_batch on a known schedule id records one workload sample,
\* removes the entry, and consumes the credits of the actual usage: the
\* owning component's allocation decreases by resource_usage["credits"] and
\* a USE record of that amount is appended, for every actual usage value.
C21_CompleteConsumesActualCredits ==
    [][\A id \in ScheduleIds, t \in ExecutionTimes, u \in ActualCredits :
        (KnownScheduleId(id) /\ CompleteBatch(id, t, u)) =>
          LET i == EntryOf(id)
              c == current_schedule[i].component_id
          IN  /\ Len(workload_history') = Len(workload_history) + 1
              /\ Last(workload_history').batch_size = current_schedule[i].batch_size
              /\ Last(workload_history').resource_usage = u
              /\ current_schedule' = SubSeq(current_schedule, 1, i - 1) \o
                                     SubSeq(current_schedule, i + 1, Len(current_schedule))
              /\ get_allocation(allocations', c) = get_allocation(allocations, c) - CreditsOf(u)
              /\ Len(usage_history') = Len(usage_history) + 1
              /\ Last(usage_history').action = "use"
              /\ Last(usage_history').component_id = c
              /\ Last(usage_history').amount = CreditsOf(u)]_vars

\* ---------------------------------------------------------- ResourceMonitor
\* Number of update_usage calls.
MaxSamples == 2
\* Number of direct check_idle_state calls.
MaxChecks == 3
\* The clock readings the sleep-time components are observed at.
MaxClock == 3

\* resource_limits["cpu"]: 100.0 (percentage)
CpuLimit == 100
\* get_idle_status averages the samples of the last 60 seconds.
IdleWindow == 60
\* cpu usage reported to update_usage.
CpuLevels == {0, 40}
\* estimated_resources of a task: {} or {"cpu": required}.
EstimatedResources == {None, <<70>>}

Max(a, b) == IF a >= b THEN a ELSE b

\* ResourceMonitor.update_usage(cpu = ...) called at time t
update_usage(mon, cpu, t) ==
    [ cpu |-> cpu,
      usage_history |-> Append(mon.usage_history, [ timestamp |-> t, cpu |-> cpu ]) ]

\* ResourceMonitor.get_available_resources()["cpu"]
get_available_cpu(mon) == Max(0, CpuLimit - mon.cpu)

\* ResourceMonitor.can_execute_task: a resource the task does not estimate
\* is not looked at.
can_execute_task(mon, estimated) ==
    estimated = None \/ ~(get_available_cpu(mon) < estimated[1])

RECURSIVE SumCpu(_)
SumCpu(samples) ==
    IF samples = <<>> THEN 0 ELSE Head(samples).cpu + SumCpu(Tail(samples))

\* ResourceMonitor.get_idle_status()["is_idle"] at time t: no sample in the
\* last minute, or the average usage of the last minute is within 30% of the
\* limit (memory and credits are never used, so their averages are 0).
get_idle_status(mon, t) ==
    LET recent_history == SelectSeq(mon.usage_history,
                                    LAMBDA e : e.timestamp >= t - IdleWindow)
    IN  IF recent_history = <<>> THEN TRUE
        ELSE 10 * SumCpu(recent_history) <= 3 * CpuLimit * Len(recent_history)

\* ------------------------------------------------------------ SleepDetector
\* min_idle_time the detector is constructed with, in seconds.
MinIdleTimes == {0, 2}

\* A detector that keeps idle_start_time over a non-idle check.
check_idle_stateNoReset(det, current_is_idle, current_time) ==
    IF current_is_idle
    THEN IF ~det.is_idle
         THEN IF det.idle_start_time = None
              THEN [ det EXCEPT !.idle_start_time = <<current_time>> ]
              ELSE IF current_time - det.idle_start_time[1] >= det.min_idle_time
                   THEN [ det EXCEPT !.is_idle = TRUE ]
                   ELSE det
         ELSE det
    ELSE [ det EXCEPT !.is_idle = FALSE ]

\* SleepDetector.check_idle_state: the detector after the check; the value
\* returned under "is_idle" is the new detector's is_idle.
check_idle_state(det, current_is_idle, current_time) ==
    IF current_is_idle
    THEN IF ~det.is_idle
         THEN IF det.idle_start_time = None
              THEN [ det EXCEPT !.idle_start_time = <<current_time>> ]
              ELSE IF current_time - det.idle_start_time[1] >= det.min_idle_time
                   THEN [ det EXCEPT !.is_idle = TRUE ]
                   ELSE det
         ELSE det
    ELSE [ det EXCEPT !.is_idle = FALSE, !.idle_start_time = None ]

\* The frame of the steps of the sleep-time components.
SleepFrame == <<orchVars, resVars, batchVars>>

\* ResourceMonitor.update_usage(cpu = cpu)
UpdateUsage(cpu) ==
    /\ Len(monitor.usage_history) < MaxSamples
    /\ monitor' = update_usage(monitor, cpu, clock)
    /\ UNCHANGED <<scheduler, detector, optimizer, workers, clock, idle_checks, SleepFrame>>

\* check_idle_state called directly (SleepTimeOptimizer.get_system_status
\* does so); what it returned is kept in idle_checks.
CheckIdleState ==
    /\ Len(idle_checks) < MaxChecks
    /\ LET current_is_idle == get_idle_status(monitor, clock)
           det == check_idle_state(detector, current_is_idle, clock)
       IN  /\ detector' = det
           /\ idle_checks' = Append(idle_checks, [ at |-> clock,
                                                   current_is_idle |-> current_is_idle,
                                                   is_idle |-> det.is_idle ])
    /\ UNCHANGED <<monitor, scheduler, optimizer, workers, clock, SleepFrame>>

\* One second passes.
ClockTick ==
    /\ clock < MaxClock
    /\ clock' = clock + 1
    /\ UNCHANGED <<monitor, scheduler, detector, optimizer, workers, idle_checks, SleepFrame>>

\* The monitor and the detector: usage is reported, the idle state is
\* checked, time passes.
InitDetecting ==
    /\ InitOrchestrator
    /\ InitResources
    /\ \E m \in MinIdleTimes : InitSleep(m)
    /\ InitController

NextDetecting ==
    \/ \E cpu \in CpuLevels : UpdateUsage(cpu)
    \/ CheckIdleState
    \/ ClockTick

SpecDetecting == InitDetecting /\ [][NextDetecting]_vars

\* ----------------------------------------------------------- detector claims
\* The first check after the most recent non-idle check before check n
\* (the first check of all when there was none).
IdleRunStart(n) ==
    LET nonidle == { k \in 1..n : ~idle_checks[k].current_is_idle }
    IN  IF nonidle = {} THEN 1
        ELSE (CHOOSE k \in nonidle : \A j \in nonidle : j <= k) + 1

\* C25: the detector reports idle at a check only if the monitor was idle at
\* every check since the most recent non-idle check (or since start) and the
\* first of those idle checks was at least min_idle_time earlier; a non-idle
\* check reports not idle and restarts the full wait.
C25_IdleOnlyAfterMinIdleTime ==
    \A n \in DOMAIN idle_checks :
        /\ ~idle_checks[n].current_is_idle => ~idle_checks[n].is_idle
        /\ idle_checks[n].is_idle =>
              /\ IdleRunStart(n) <= n
              /\ idle_checks[n].at - idle_checks[IdleRunStart(n)].at >= detector.min_idle_time

\* C25 witness: a positive min_idle_time, a non-idle check, and later a
\* check that reports idle.
C25_Witness ==
    /\ detector.min_idle_time > 0
    /\ \E k, n \in DOMAIN idle_checks :
          /\ k < n
          /\ ~idle_checks[k].current_is_idle
          /\ idle_checks[n].is_idle

\* ------------------------------------------------------------ TaskScheduler
\* TaskPriority
LOW == 0
MEDIUM == 1
HIGH == 2

\* priority of the tasks added.
SleepPriorities == {LOW, HIGH}

\* str(e) of what an executor raises, as mark_task_failed reads it: empty,
\* without "critical", or with "critical" in it.
SleepErrors == {"", "transient", "critical"}
\* "critical" in error.lower()
IsCritical(error) == error = "critical"

\* The order of task ids as strings (the second component of a queue entry).
IdRank(id) == CASE id = "s1" -> 1 [] id = "s2" -> 2

\* task_queue is a heap of (priority_score, task_id): its entries are kept
\* in ascending order, the head being heap[0].
heappush(queue, score, id) == InsertByKey(queue, << <<score, IdRank(id)>>, id >>)
heappop(queue) == Tail(queue)
QueuedIds(queue) == { queue[i][2] : i \in DOMAIN queue }

\* SleepTimeTask.__init__
NewSleepTask(priority, estimated, deps) ==
    [ priority |-> priority, estimated_resources |-> estimated, dependencies |-> deps,
      status |-> "pending", error |-> None ]

\* TaskScheduler.add_task
scheduler_add_task(sch, id, task) ==
    [ sch EXCEPT !.tasks[id] = task,
                 !.task_queue = heappush(sch.task_queue, 0 - task.priority, id) ]

\* A dependency check that lets every task through.
dependencies_metAlways(sch, id) == TRUE

\* all(dep_id in self.completed_tasks for dep_id in task.dependencies)
dependencies_met(sch, id) ==
    \A d \in Range(sch.tasks[id].dependencies) : d \in sch.completed_tasks

\* TaskScheduler.mark_task_completed
mark_task_completed(sch, id) ==
    [ sch EXCEPT !.tasks[id].status = "completed",
                 !.scheduled_tasks = @ \ {id},
                 !.completed_tasks = @ \cup {id} ]

\* if error and "critical" not in error.lower()
Requeued(error) == error # None /\ error[1] # "" /\ ~IsCritical(error[1])

\* TaskScheduler.mark_task_failed
mark_task_failed(sch, id, error) ==
    LET failed == [ sch EXCEPT !.tasks[id].status = "failed",
                               !.tasks[id].error = error,
                               !.scheduled_tasks = @ \ {id},
                               !.failed_tasks = @ \cup {id} ]
        new_priority == Max(0, sch.tasks[id].priority - 1)
    IN  IF Requeued(error)
        THEN [ failed EXCEPT !.tasks[id].priority = new_priority,
                             !.tasks[id].status = "pending",
                             !.task_queue = heappush(@, 0 - new_priority, id) ]
        ELSE failed

\* ------------------------------------------------------- SleepTimeOptimizer
\* stop(): self.worker_thread.join(timeout=5.0)
JoinTimeout == 5

\* The dependency lists a new task is given: none, or one task added before.
SleepDepChoices == { <<>> } \cup { <<d>> : d \in { x \in SleepIds : scheduler.tasks[x] # None } }

\* SleepTimeOptimizer.add_task: the task gets a fresh id (uuid4) and is
\* handed to TaskScheduler.add_task; its task type is registered.
AddSleepTask(id, priority, estimated, deps) ==
    /\ scheduler.tasks[id] = None
    /\ scheduler' = scheduler_add_task(scheduler, id, NewSleepTask(priority, estimated, deps))
    /\ UNCHANGED <<monitor, detector, optimizer, workers, clock, idle_checks, SleepFrame>>

\* SleepTimeOptimizer.start; w is the thread it creates when the optimizer
\* is not running.
Start(w) ==
    /\ optimizer.join_deadline = None
    /\ IF optimizer.running
       THEN UNCHANGED <<optimizer, workers>>
       ELSE /\ workers[w].pc = "none"
            /\ optimizer' = [ optimizer EXCEPT !.running = TRUE, !.worker_thread = <<w>> ]
            /\ workers' = [ workers EXCEPT ![w].pc = "check" ]
    /\ UNCHANGED <<monitor, scheduler, detector, clock, idle_checks, SleepFrame>>

\* SleepTimeOptimizer.stop: running = False, then the join, which ends when
\* the worker thread has left its loop or after JoinTimeout seconds.
Stop ==
    /\ optimizer.join_deadline = None
    /\ optimizer' = [ optimizer EXCEPT
                        !.running = FALSE,
                        !.join_deadline = IF optimizer.worker_thread # None
                                          THEN <<clock + JoinTimeout>> ELSE None ]
    /\ UNCHANGED <<monitor, scheduler, detector, workers, clock, idle_checks, SleepFrame>>

StopJoined ==
    /\ optimizer.join_deadline # None
    /\ \/ workers[optimizer.worker_thread[1]].pc = "exit"
       \/ clock >= optimizer.join_deadline[1]
    /\ optimizer' = [ optimizer EXCEPT !.worker_thread = None, !.join_deadline = None ]
    /\ UNCHANGED <<monitor, scheduler, detector, workers, clock, idle_checks, SleepFrame>>

\* time.sleep(1.0) at the end of a poll
Sleeping(w) == [ workers[w] EXCEPT !.pc = "sleep", !.task = None, !.wake = clock + 1 ]
\* _execute_pending_tasks has returned to its caller.
Returned(w) == [ workers[w] EXCEPT !.pc = "returned", !.task = None ]

WorkerFrame == <<monitor, optimizer, clock, idle_checks, SleepFrame>>

\* A worker loop that executes pending tasks whatever the detector reports.
WorkerCheckAlways(w) ==
    /\ workers[w].pc = "check"
    /\ IF ~optimizer.running
       THEN /\ workers' = [ workers EXCEPT ![w].pc = "exit" ]
            /\ UNCHANGED detector
       ELSE LET det == check_idle_state(detector, get_idle_status(monitor, clock), clock)
            IN  /\ detector' = det
                /\ workers' = [ workers EXCEPT ![w].pc = "peek", ![w].idle = det.is_idle,
                                               ![w].started = 0 ]
    /\ UNCHANGED <<scheduler, WorkerFrame>>

\* _worker_loop: the loop test and the poll of the detector; when idle the
\* worker enters _execute_pending_tasks and with it get_next_task.
WorkerCheck(w) ==
    /\ workers[w].pc = "check"
    /\ IF ~optimizer.running
       THEN /\ workers' = [ workers EXCEPT ![w].pc = "exit" ]
            /\ UNCHANGED detector
       ELSE LET det == check_idle_state(detector, get_idle_status(monitor, clock), clock)
            IN  /\ detector' = det
                /\ workers' = [ workers EXCEPT
                                  ![w] = IF det.is_idle
                                         THEN [ @ EXCEPT !.pc = "peek", !.idle = TRUE,
                                                         !.started = 0 ]
                                         ELSE [ Sleeping(w) EXCEPT !.idle = FALSE,
                                                                   !.started = 0 ] ]
    /\ UNCHANGED <<scheduler, WorkerFrame>>

\* TaskScheduler.get_next_task: one pass of "while self.task_queue" (the
\* loop is left by the returns only).
WorkerPeek(w) ==
    /\ workers[w].pc = "peek"
    /\ LET queue == scheduler.task_queue
           id == queue[1][2]
       IN  IF queue = <<>>
           THEN /\ workers' = [ workers EXCEPT ![w] = Returned(w) ]
                /\ UNCHANGED scheduler
           ELSE IF id \in scheduler.scheduled_tasks \/ id \in scheduler.completed_tasks
           THEN /\ scheduler' = [ scheduler EXCEPT !.task_queue = heappop(queue) ]
                /\ UNCHANGED workers
           ELSE IF ~dependencies_met(scheduler, id)
           THEN /\ scheduler' = [ scheduler EXCEPT !.task_queue = heappop(queue) ]
                /\ workers' = [ workers EXCEPT ![w].pc = "repush", ![w].task = <<id>> ]
           ELSE IF ~can_execute_task(monitor, scheduler.tasks[id].estimated_resources)
           THEN /\ workers' = [ workers EXCEPT ![w] = Returned(w) ]
                /\ UNCHANGED scheduler
           ELSE /\ scheduler' = [ scheduler EXCEPT !.task_queue = heappop(queue),
                                                   !.scheduled_tasks = @ \cup {id},
                                                   !.tasks[id].status = "scheduled" ]
                /\ workers' = [ workers EXCEPT ![w].pc = "got", ![w].task = <<id>> ]
    /\ UNCHANGED <<detector, WorkerFrame>>

\* get_next_task, dependencies not met: the heappush that follows the
\* heappop ("add back with same priority"), then the next pass.
WorkerRepush(w) ==
    /\ workers[w].pc = "repush"
    /\ LET id == workers[w].task[1]
       IN  scheduler' = [ scheduler EXCEPT
                            !.task_queue = heappush(@, 0 - scheduler.tasks[id].priority, id) ]
    /\ workers' = [ workers EXCEPT ![w].pc = "peek", ![w].task = None ]
    /\ UNCHANGED <<detector, WorkerFrame>>

\* _execute_pending_tasks: the executor of the task's type is found, the
\* task is set running and executor.execute(task) is called.
WorkerStart(w) ==
    /\ workers[w].pc = "got"
    /\ scheduler' = [ scheduler EXCEPT !.tasks[workers[w].task[1]].status = "running" ]
    /\ workers' = [ workers EXCEPT ![w].pc = "execute", ![w].started = @ + 1 ]
    /\ UNCHANGED <<detector, WorkerFrame>>

\* executor.execute(task) returns: mark_task_completed and the return.
SleepExecutorReturns(w) ==
    /\ workers[w].pc = "execute"
    /\ scheduler' = mark_task_completed(scheduler, workers[w].task[1])
    /\ workers' = [ workers EXCEPT ![w] = Returned(w) ]
    /\ UNCHANGED <<detector, WorkerFrame>>

\* executor.execute(task) raises e: mark_task_failed(task_id, str(e)) and
\* the return.
SleepExecutorRaises(w, error) ==
    /\ workers[w].pc = "execute"
    /\ scheduler' = mark_task_failed(scheduler, workers[w].task[1], <<error>>)
    /\ workers' = [ workers EXCEPT ![w] = Returned(w) ]
    /\ UNCHANGED <<detector, WorkerFrame>>

\* _worker_loop after _execute_pending_tasks: time.sleep(1.0) begins.
WorkerSleep(w) ==
    /\ workers[w].pc = "returned"
    /\ workers' = [ workers EXCEPT ![w] = Sleeping(w) ]
    /\ UNCHANGED <<scheduler, detector, WorkerFrame>>

\* time.sleep(1.0) is over (its deadline is forgotten): back to the loop test.
WorkerWake(w) ==
    /\ workers[w].pc = "sleep"
    /\ clock >= workers[w].wake
    /\ workers' = [ workers EXCEPT ![w].pc = "check", ![w].wake = 0 ]
    /\ UNCHANGED <<scheduler, detector, WorkerFrame>>

\* The optimizer in use: tasks are added (here with the default MEDIUM
\* priority and no estimate, with or without a dependency), usage is
\* reported, the optimizer is started and stopped, its worker threads run
\* (an executor that raises does so with a retryable or a critical error),
\* time passes.
\* min_idle_time of the detector the optimizer is built on, in seconds.
SleepingMinIdleTime == 1
\* The threads start() creates here: the optimizer is started once.
SleepingWorkers == {"w1"}

InitSleeping ==
    /\ InitOrchestrator
    /\ InitResources
    /\ InitSleep(SleepingMinIdleTime)
    /\ InitController

NextSleeping ==
    \/ \E id \in SleepIds, deps \in SleepDepChoices : AddSleepTask(id, MEDIUM, None, deps)
    \/ \E cpu \in CpuLevels : UpdateUsage(cpu)
    \/ \E w \in SleepingWorkers : Start(w)
    \/ Stop
    \/ StopJoined
    \/ \E w \in WorkerIds : WorkerCheck(w)
    \/ \E w \in WorkerIds : WorkerPeek(w)
    \/ \E w \in WorkerIds : WorkerRepush(w)
    \/ \E w \in WorkerIds : WorkerStart(w)
    \/ \E w \in WorkerIds : SleepExecutorReturns(w)
    \/ \E w \in WorkerIds, e \in {"transient", "critical"} : SleepExecutorRaises(w, e)
    \/ \E w \in WorkerIds : WorkerSleep(w)
    \/ \E w \in WorkerIds : WorkerWake(w)
    \/ ClockTick

SpecSleeping == InitSleeping /\ [][NextSleeping]_vars

\* The task queue under every sequence of _execute_pending_tasks calls: the
\* calls are made one after the other by one thread, whenever the worker
\* loop could make them (the detector decides when, not what they do), while
\* tasks of every kind are added and usage is reported.
QueueCallers == {"w1"}

\* _execute_pending_tasks is called.
ExecutePendingTasks(w) ==
    /\ workers[w].pc \in {"none", "returned"}
    /\ workers' = [ workers EXCEPT ![w].pc = "peek", ![w].idle = TRUE, ![w].started = 0 ]
    /\ UNCHANGED <<scheduler, detector, WorkerFrame>>

NextTaskQueue ==
    \/ \E id \in SleepIds, p \in SleepPriorities, e \in EstimatedResources :
          \E deps \in SleepDepChoices : AddSleepTask(id, p, e, deps)
    \/ \E cpu \in CpuLevels : UpdateUsage(cpu)
    \/ \E w \in QueueCallers : ExecutePendingTasks(w)
    \/ \E w \in QueueCallers : WorkerPeek(w)
    \/ \E w \in QueueCallers : WorkerRepush(w)
    \/ \E w \in QueueCallers : WorkerStart(w)
    \/ \E w \in QueueCallers : SleepExecutorReturns(w)
    \/ \E w \in QueueCallers, e \in SleepErrors : SleepExecutorRaises(w, e)

SpecTaskQueue == Init /\ [][NextTaskQueue]_vars

\* The worker loop is scheduled fairly inside get_next_task.
SpecTaskQueueFair ==
    /\ SpecTaskQueue
    /\ \A w \in QueueCallers : WF_vars(WorkerPeek(w)) /\ WF_vars(WorkerRepush(w))

\* ------------------------------------------------------- task queue claims
\* get_next_task returns task id to w in this step.
GetNextReturns(w, id) ==
    /\ workers[w].pc = "peek"
    /\ workers'[w].pc = "got"
    /\ workers'[w].task = <<id>>

\* C22: every task returned by get_next_task has all its dependencies in
\* completed_tasks, estimated resources that fit the monitor's available
\* resources, is not already scheduled or completed, and has the highest
\* priority among the queued tasks whose dependencies are complete; on
\* return it is removed from the queue and marked scheduled.
C22_GetNextReturnsReadyTask ==
    [][\A w \in WorkerIds, id \in SleepIds :
        GetNextReturns(w, id) =>
          LET task == scheduler.tasks[id]
          IN  /\ \A d \in Range(task.dependencies) : d \in scheduler.completed_tasks
              /\ task.estimated_resources # None =>
                    task.estimated_resources[1] <= Max(0, CpuLimit - monitor.cpu)
              /\ id \notin scheduler.scheduled_tasks
              /\ id \notin scheduler.completed_tasks
              /\ \A j \in QueuedIds(scheduler.task_queue) :
                    (\A d \in Range(scheduler.tasks[j].dependencies) :
                        d \in scheduler.completed_tasks)
                    => scheduler.tasks[j].priority <= task.priority
              /\ id \notin QueuedIds(scheduler'.task_queue)
              /\ id \in scheduler'.scheduled_tasks
              /\ scheduler'.tasks[id].status = "scheduled"]_vars

\* C22 witness: get_next_task has returned a task that has a dependency and
\* a cpu estimate, after usage was reported to the monitor.
C22_Witness ==
    \E w \in WorkerIds :
        /\ workers[w].pc = "got"
        /\ scheduler.tasks[workers[w].task[1]].dependencies # <<>>
        /\ scheduler.tasks[workers[w].task[1]].estimated_resources # None
        /\ monitor.usage_history # <<>>

\* C23: get_next_task completes in every reachable queue state: a call
\* returns a task or None, also when the highest-priority queued task has a
\* dependency that is not completed.
C23_GetNextTerminates ==
    \A w \in QueueCallers :
        (workers[w].pc = "peek") ~> (workers[w].pc \in {"got", "returned"})

\* C24: when a task fails, either its error contains "critical" and it is
\* terminal failed and not queued again, or it is queued again with a
\* priority strictly lower than it had, for every starting priority.
C24_FailureLowersPriority ==
    [][\A w \in WorkerIds, e \in SleepErrors :
        SleepExecutorRaises(w, e) =>
          LET id == workers[w].task[1]
          IN  \/ /\ IsCritical(e)
                 /\ scheduler'.tasks[id].status = "failed"
                 /\ id \notin QueuedIds(scheduler'.task_queue)
              \/ /\ ~IsCritical(e)
                 /\ id \in QueuedIds(scheduler'.task_queue)
                 /\ scheduler'.tasks[id].priority < scheduler.tasks[id].priority]_vars

\* -------------------------------------------------------- worker loop claims
\* C26: the worker loop dispatches a task to an executor only in a poll in
\* which check_idle_state reported idle, and at most one task per poll: it
\* enters _execute_pending_tasks only when the poll's check returned
\* is_idle, and starts a task only in such a poll that has started none.
C26_DispatchOnlyWhenIdle ==
    [][\A w \in WorkerIds :
        /\ (workers[w].pc = "check" /\ workers'[w].pc # "exit") =>
              /\ workers'[w].idle = detector'.is_idle
              /\ workers'[w].pc = "peek" => detector'.is_idle
        /\ (workers'[w].pc = "execute" /\ workers[w].pc # "execute") =>
              /\ workers[w].idle
              /\ workers[w].started = 0]_vars

\* C26 witness: the worker is executing a task in a poll that reported idle
\* while another task is pending in the queue.
C26_Witness ==
    \E w \in WorkerIds :
        /\ workers[w].pc = "execute"
        /\ workers[w].idle
        /\ scheduler.task_queue # <<>>
        /\ detector.min_idle_time > 0

\* ---------------------------------------------------------- BatchController
\* BatchConfig.max_batch_size and min_batch_size of the configs passed.
MaxBatchSizes == 0..2
MinBatchSizes == 0..2
\* BatchConfig(): max_batch_size = 10, min_batch_size = 1
DefaultMaxBatchSize == 10
DefaultMinBatchSize == 1
DefaultConfig == [ max_batch_size |-> DefaultMaxBatchSize,
                   min_batch_size |-> DefaultMinBatchSize ]
\* form_batch(config): None (the default config) or a config.
Configs == {None} \cup { <<[ max_batch_size |-> mx, min_batch_size |-> mn ]>> :
                           mx \in MaxBatchSizes, mn \in MinBatchSizes }

\* The rules form_optimal_batch is given and what happens to each: get_rule
\* raises (loaded = FALSE), rule.evaluate raises (size = None), or
\* rule.evaluate returns a size.
RuleIds == {"r1", "r2"}
Recommendations == -1..3
RuleOutcomes == { [ loaded |-> FALSE, size |-> None ], [ loaded |-> TRUE, size |-> None ] }
                    \cup { [ loaded |-> TRUE, size |-> <<n>> ] : n \in Recommendations }
RuleRuns == { <<>> } \cup { << <<"r1", o>> >> : o \in RuleOutcomes }
                \cup { << <<"r1", o1>>, <<"r2", o2>> >> : o1 \in RuleOutcomes, o2 \in RuleOutcomes }

Min(a, b) == IF a <= b THEN a ELSE b

\* s[:n] and s[n:] of a Python list; a negative n counts from the end.
SliceTo(s, n) ==
    IF n >= 0 THEN SubSeq(s, 1, Min(n, Len(s))) ELSE SubSeq(s, 1, Max(Len(s) + n, 0))
\* An s[n:] that keeps the whole list for a negative n.
SliceFromKeepsAll(s, n) ==
    IF n >= 0 THEN SubSeq(s, Min(n, Len(s)) + 1, Len(s)) ELSE s
SliceFrom(s, n) ==
    IF n >= 0 THEN SubSeq(s, Min(n, Len(s)) + 1, Len(s))
    ELSE SubSeq(s, Max(Len(s) + n, 0) + 1, Len(s))

\* int(a / b) for b > 0: the quotient truncated toward zero.
IntDiv(a, b) == IF a >= 0 THEN a \div b ELSE 0 - ((0 - a) \div b)

RECURSIVE Sum(_)
Sum(s) == IF s = <<>> THEN 0 ELSE Head(s) + Sum(Tail(s))

\* A form_batch that forms a batch below min_batch_size.
form_batchNoMinimum(ctl, config) ==
    IF ctl.pending_tasks = <<>> THEN [ batch |-> <<>>, ctl |-> ctl ]
    ELSE LET batch_size == Min(config.max_batch_size, Len(ctl.pending_tasks))
         IN  [ batch |-> SliceTo(ctl.pending_tasks, batch_size),
               ctl |-> [ ctl EXCEPT !.pending_tasks = SliceFrom(@, batch_size) ] ]

\* BatchController.form_batch with the config in use
form_batch(ctl, config) ==
    IF ctl.pending_tasks = <<>> THEN [ batch |-> <<>>, ctl |-> ctl ]
    ELSE LET batch_size == Min(config.max_batch_size, Len(ctl.pending_tasks))
         IN  IF batch_size < config.min_batch_size
             THEN [ batch |-> <<>>, ctl |-> ctl ]
             ELSE [ batch |-> SliceTo(ctl.pending_tasks, batch_size),
                    ctl |-> [ ctl EXCEPT !.pending_tasks = SliceFrom(@, batch_size) ] ]

\* BatchController.form_optimal_batch over the given rule runs
form_optimal_batch(ctl, runs) ==
    IF ctl.pending_tasks = <<>> THEN [ batch |-> <<>>, ctl |-> ctl ]
    ELSE LET loaded == { runs[i][1] : i \in { j \in DOMAIN runs : runs[j][2].loaded } }
             cached == [ ctl EXCEPT !.rule_cache = @ \cup loaded ]
             evaluated == SelectSeq(runs, LAMBDA r : r[2].size # None)
             batch_sizes == [ i \in DOMAIN evaluated |-> evaluated[i][2].size[1] ]
         IN  IF batch_sizes = <<>> THEN form_batch(cached, DefaultConfig)
             ELSE LET avg_batch_size == IntDiv(Sum(batch_sizes), Len(batch_sizes))
                      batch_size == Min(avg_batch_size, Len(ctl.pending_tasks))
                  IN  [ batch |-> SliceTo(ctl.pending_tasks, batch_size),
                        ctl |-> [ cached EXCEPT !.pending_tasks = SliceFrom(@, batch_size) ] ]

BatchFrame == <<objs, tasks, workflows, co, wf, resVars, sleepVars>>

Formed(batch) == IF batch = <<>> THEN formed ELSE Append(formed, batch)

\* BatchController.add_task
AddBatchTask(id) ==
    /\ id \notin Range(controller.pending_tasks)
    /\ \A i \in DOMAIN formed : id \notin Range(formed[i])
    /\ controller' = [ controller EXCEPT !.pending_tasks = Append(@, id) ]
    /\ batch_tasks' = [ batch_tasks EXCEPT ![id] = PENDING ]
    /\ ret' = [ op |-> "add_task", arg |-> <<id>>, val |-> None, exc |-> None ]
    /\ UNCHANGED <<formed, proc, BatchFrame>>

\* BatchController.form_batch(config)
FormBatch(config) ==
    /\ LET r == form_batch(controller, IF config = None THEN DefaultConfig ELSE config[1])
       IN  /\ controller' = r.ctl
           /\ formed' = Formed(r.batch)
           /\ ret' = [ op |-> "form_batch", arg |-> config, val |-> r.batch, exc |-> None ]
    /\ UNCHANGED <<batch_tasks, proc, BatchFrame>>

\* BatchController.form_optimal_batch(rule_ids, system_state): a rule in the
\* cache is not loaded again, so get_rule cannot fail for it.
FormOptimalBatch(runs) ==
    /\ \A i \in DOMAIN runs : runs[i][1] \in controller.rule_cache => runs[i][2].loaded
    /\ LET r == form_optimal_batch(controller, runs)
       IN  /\ controller' = r.ctl
           /\ formed' = Formed(r.batch)
           /\ ret' = [ op |-> "form_optimal_batch", arg |-> runs, val |-> r.batch,
                       exc |-> None ]
    /\ UNCHANGED <<batch_tasks, proc, BatchFrame>>

NextBatching ==
    \/ \E id \in BatchTaskIds : AddBatchTask(id)
    \/ \E config \in Configs : FormBatch(config)
    \/ \E runs \in RuleRuns : FormOptimalBatch(runs)

SpecBatching == Init /\ [][NextBatching]_vars

\* C27: form_batch(config) removes and returns the first
\* k = min(config.max_batch_size, |pending|) tasks of the pending list in
\* their insertion order; when k is below config.min_batch_size it returns
\* the empty batch and leaves the pending list unchanged.
C27_FormBatchTakesFirstK ==
    [][ \A config \in Configs :
          FormBatch(config) =>
            LET cfg == IF config = None THEN DefaultConfig ELSE config[1]
                pending == controller.pending_tasks
                k == Min(cfg.max_batch_size, Len(pending))
            IN  IF k < cfg.min_batch_size
                THEN /\ ret'.val = <<>>
                     /\ controller'.pending_tasks = pending
                ELSE /\ ret'.val = SubSeq(pending, 1, k)
                     /\ controller'.pending_tasks = SubSeq(pending, k + 1, Len(pending))
      ]_vars

\* form_batch took two of three pending tasks under a config.
C27_Witness ==
    /\ ret.op = "form_batch"
    /\ ret.arg # None
    /\ ret.val = <<"b1", "b2">>
    /\ controller.pending_tasks = <<"b3">>

\* form_batch refused a batch below min_batch_size and kept the pending list.
C27_WitnessRefused ==
    /\ ret.op = "form_batch"
    /\ ret.arg # None
    /\ ret.arg[1].min_batch_size = 2
    /\ ret.val = <<>>
    /\ Len(controller.pending_tasks) = 1

\* The recommendations of the rules that loaded and evaluated.
RecommendationsOf(runs) ==
    LET evaluated == SelectSeq(runs, LAMBDA r : r[2].loaded /\ r[2].size # None)
    IN  [ i \in DOMAIN evaluated |-> evaluated[i][2].size[1] ]

\* C28: form_optimal_batch extracts from the head of pending exactly
\* min(floor(mean of the recommendations of the rules that loaded and
\* evaluated), |pending|) tasks, for all integer recommendations (a count
\* below zero extracts nothing); a failing rule is excluded from the mean,
\* and only when all rules fail is the default form_batch sizing used.
C28_FormOptimalTakesFloorOfMean ==
    [][ \A runs \in RuleRuns :
          (FormOptimalBatch(runs) /\ controller.pending_tasks # <<>>) =>
            LET pending == controller.pending_tasks
                recs == RecommendationsOf(runs)
            IN  IF recs = <<>>
                THEN LET k == Min(DefaultMaxBatchSize, Len(pending))
                     IN  /\ ret'.val = SubSeq(pending, 1, k)
                         /\ controller'.pending_tasks = SubSeq(pending, k + 1, Len(pending))
                ELSE LET k == Max(0, Min(Sum(recs) \div Len(recs), Len(pending)))
                     IN  /\ ret'.val = SubSeq(pending, 1, k)
                         /\ controller'.pending_tasks = SubSeq(pending, k + 1, Len(pending))
      ]_vars

\* ------------------------------------- PredictiveBatchScheduler predictions
\* Execution times are counted in units of 100 ms and a prediction is the
\* exact quotient num / den (den > 0) of the division the code performs.

\* The samples record_workload is given before the predictions are read.
MaxWorkload == 2
\* The largest batch size sampled or asked about.
MaxBatch == 4
\* The largest execution time sampled.
MaxExecutionTime == 2
\* predict_execution_time without history: batch_size * 0.1
TimePerTask == 1

SampleSizes == 1..MaxBatch
SampleTimes == 0..MaxExecutionTime
PredictSizes == 0..MaxBatch

RECURSIVE SumTimes(_)
SumTimes(samples) ==
    IF samples = <<>> THEN 0 ELSE Head(samples).execution_time + SumTimes(Tail(samples))

\* PredictiveBatchScheduler.predict_execution_time
predict_execution_time(history, n) ==
    IF history = <<>> THEN [ num |-> n * TimePerTask, den |-> 1 ]
    ELSE LET similar_batches == Similar(history, n)
         IN  IF similar_batches # <<>>
             THEN [ num |-> SumTimes(similar_batches), den |-> Len(similar_batches) ]
             ELSE LET closest_entry == Closest(history, n)
                  IN  [ num |-> closest_entry.execution_time * n,
                        den |-> closest_entry.batch_size ]

\* a <= b for two quotients
Leq(a, b) == a.num * b.den <= b.num * a.den

PredictFrame == <<bgVars, ledgerVars, threads, selVars, current_schedule, now>>

\* PredictiveBatchScheduler.record_workload(timestamp, batch_size,
\* execution_time, resource_usage)
RecordWorkload(batch_size, execution_time) ==
    /\ Len(workload_history) < MaxWorkload
    /\ workload_history' = record_workload(workload_history, batch_size, execution_time, None)
    /\ ret' = [ op |-> "record_workload", arg |-> <<batch_size, execution_time>>,
                val |-> None, exc |-> None ]
    /\ UNCHANGED <<objs, tasks, workflows, co, wf, PredictFrame>>

\* PredictiveBatchScheduler.predict_execution_time(batch_size)
PredictExecutionTime(batch_size) ==
    /\ ret' = [ op |-> "predict_execution_time", arg |-> <<batch_size>>,
                val |-> predict_execution_time(workload_history, batch_size),
                exc |-> None ]
    /\ UNCHANGED <<objs, tasks, workflows, co, wf, workload_history, PredictFrame>>

NextPredicting ==
    \/ \E n \in SampleSizes, t \in SampleTimes : RecordWorkload(n, t)
    \/ \E n \in PredictSizes : PredictExecutionTime(n)

SpecPredicting == Init /\ [][NextPredicting]_vars

\* Larger sampled batch sizes never have smaller execution times, and
\* samples of one batch size have one execution time.
MonotonicHistory(history) ==
    \A i, j \in DOMAIN history :
        history[i].batch_size <= history[j].batch_size
            => history[i].execution_time <= history[j].execution_time

\* C29: predict_execution_time(n) >= 0 for every n >= 0 and every history
\* with non-negative times, and over a monotonic history n1 <= n2 implies
\* predict_execution_time(n1) <= predict_execution_time(n2).
C29_PredictionNonNegativeAndMonotonic ==
    [][ \A n2 \in PredictSizes :
          PredictExecutionTime(n2) =>
            /\ ret'.val.num >= 0
            /\ ( /\ ret.op = "predict_execution_time"
                 /\ ret.arg[1] <= n2
                 /\ MonotonicHistory(workload_history) )
               => Leq(ret.val, ret'.val)
      ]_vars

\* ------------------------------------------------- Task.timeout_seconds
\* timeout_seconds of the tasks added: None or a number of seconds.
Timeouts == {None, <<1>>}

\* Task(..., timeout_seconds = timeout)
NewTimedTask(id, deps, mr, timeout) ==
    [ NewTask(id, deps, mr) EXCEPT !.timeout_seconds = timeout ]

\* add_task of a task that carries a timeout, under a new id.
SubmitTimed(id, deps, mr, timeout) ==
    /\ Len(objs) < MaxSubmits
    /\ tasks[id] = 0
    /\ LET r == add_task([objs |-> objs, tasks |-> tasks], NewTimedTask(id, deps, mr, timeout))
       IN  /\ objs' = r.objs
           /\ tasks' = r.tasks
    /\ UNCHANGED <<workflows, co, wf, ret>>
    /\ UNCHANGED <<resVars, bgVars>>

\* The executor call of coroutine c has run for longer than the task's
\* timeout_seconds.  execute_task awaits the call without a timer (line 452)
\* and reads timeout_seconds nowhere: the coroutine stays suspended in the
\* call and the task stays as it is.
TimeoutElapses(c) ==
    /\ co[c].pc = "exec"
    /\ objs[co[c].task].timeout_seconds # None
    /\ co' = [ co EXCEPT ![c].pc = "overdue" ]
    /\ UNCHANGED <<objs, tasks, workflows, wf, ret>>
    /\ UNCHANGED <<resVars, bgVars>>

\* The executor returns after the timeout has elapsed.
OverdueReturns(c) ==
    /\ co[c].pc = "overdue"
    /\ LET r == OnSuccess(objs, co[c].task)
       IN  /\ objs' = r.objs
           /\ co' = [ co EXCEPT ![c] = r.frame ]
    /\ UNCHANGED <<tasks, workflows, wf, ret>>
    /\ UNCHANGED <<resVars, bgVars>>

\* The executor raises after the timeout has elapsed.
OverdueRaises(c) ==
    /\ co[c].pc = "overdue"
    /\ LET r == OnFailure(objs, co[c].task, c[2])
       IN  /\ objs' = r.objs
           /\ co' = [ co EXCEPT ![c] = r.frame ]
    /\ UNCHANGED <<tasks, workflows, wf, ret>>
    /\ UNCHANGED <<resVars, bgVars>>

\* Sequential use of execute_task on tasks with and without a timeout: the
\* executor call returns or raises in time, returns or raises late, or does
\* not return at all.
NextTimeout ==
    \/ \E id \in SoloIds : \E deps \in DepChoices(id) : \E mr \in 0..MaxRetries :
           \E timeout \in Timeouts : SubmitTimed(id, deps, mr, timeout)
    \/ \E id \in SoloIds : Execute(id)
    \/ \E c \in Slots : ExecutorReturns(c)
    \/ \E c \in Slots : ExecutorRaises(c)
    \/ \E c \in Slots : TimeoutElapses(c)
    \/ \E c \in Slots : OverdueReturns(c)
    \/ \E c \in Slots : OverdueRaises(c)

\* Time passes while a call is in the executor; nothing obliges the executor
\* to come back.
SpecTimeout ==
    /\ Init /\ [][NextTimeout]_vars
    /\ \A c \in Slots : WF_vars(TimeoutElapses(c))

\* C30: an execution that exceeds the task's timeout is treated as a failure
\* of that attempt: the attempt ends, it increments retry_count, and the task
\* is retried or ends FAILED under the retry policy; the task does not stay
\* RUNNING forever on an executor call that does not return.
C30_TimeoutIsFailure ==
    /\ [][ \A c \in Slots :
             (co[c].pc = "overdue" /\ co'[c] # co[c]) =>
               LET o == co[c].task
               IN  /\ objs'[o].retry_count = objs[o].retry_count + 1
                   /\ \/ objs'[o].status = FAILED
                      \/ (co'[c].pc = "exec" /\ objs'[o].status = RUNNING)
         ]_vars
    /\ \A c \in Slots : (co[c].pc = "overdue") ~> (co[c].pc # "overdue")

\* ------------------------------------------- BatchController.process_batches
\* A batch_info dictionary keeps its tasks, its "status" ("none" while the
\* key is absent) and its "error"; batch_id and the timestamps are written
\* and read by no decision of the code.
ProcessorError == <<"processor error">>

\* list.remove(x): the list without its first element equal to x
RemoveFirst(s, x) ==
    LET i == CHOOSE k \in DOMAIN s : s[k] = x /\ \A j \in 1..(k - 1) : s[j] # x
    IN  SubSeq(s, 1, i - 1) \o SubSeq(s, i + 1, Len(s))

ProcessFrame == <<objs, tasks, workflows, co, wf, resVars, sleepVars>>

\* process_batches(processor_func, config, rule_ids, system_state) is
\* called; rules: rule_ids and system_state are both given and not empty.
ProcessBatches(config, rules) ==
    /\ proc.pc \in {"none", "returned"}
    /\ proc' = [ NoCall EXCEPT !.pc = "loop", !.config = config, !.rules = rules ]
    /\ UNCHANGED <<controller, formed, batch_tasks, ret, ProcessFrame>>

\* One pass of "while self.pending_tasks" up to the await: the batch is
\* formed and made active, or the call returns its results.
ProcessLoop(runs) ==
    /\ proc.pc = "loop"
    /\ IF proc.rules THEN runs # <<>> ELSE runs = <<>>
    /\ \A i \in DOMAIN runs : runs[i][1] \in controller.rule_cache => runs[i][2].loaded
    /\ LET r == IF proc.rules THEN form_optimal_batch(controller, runs)
                ELSE form_batch(controller,
                                IF proc.config = None THEN DefaultConfig ELSE proc.config[1])
           batch_info == [ tasks |-> r.batch, status |-> "none", error |-> None ]
       IN  IF controller.pending_tasks = <<>> \/ r.batch = <<>>
           THEN /\ controller' = IF controller.pending_tasks = <<>> THEN controller ELSE r.ctl
                /\ proc' = [ NoCall EXCEPT !.pc = "returned" ]
                /\ ret' = [ op |-> "process_batches", arg |-> <<proc.config, proc.rules>>,
                            val |-> proc.results, exc |-> None ]
                /\ UNCHANGED formed
           ELSE /\ controller' = [ r.ctl EXCEPT !.active_batches = Append(@, batch_info) ]
                /\ proc' = [ proc EXCEPT !.pc = "await", !.batch_info = <<batch_info>> ]
                /\ formed' = Formed(r.batch)
                /\ UNCHANGED ret
    /\ UNCHANGED <<batch_tasks, ProcessFrame>>

\* What the end of the processor call does to the batch: the dictionary (the
\* last one made active) is updated in place, appended to completed_batches
\* and removed from active_batches, and the result entry is appended.
EndBatch(status, error) ==
    LET info == [ proc.batch_info[1] EXCEPT !.status = status, !.error = error ]
        active == [ controller.active_batches EXCEPT ![Len(controller.active_batches)] = info ]
    IN  /\ controller' = [ controller EXCEPT
                             !.completed_batches = Append(@, info),
                             !.active_batches = RemoveFirst(active, info) ]
        /\ proc' = [ proc EXCEPT !.pc = "loop", !.batch_info = None,
                                 !.results = Append(@, [ task_count |-> Len(info.tasks),
                                                         error |-> error ]) ]

\* await processor_func(batch) returns; the processor has left the member
\* tasks in failed FAILED and the others COMPLETED.
ProcessorReturns(failed) ==
    /\ proc.pc = "await"
    /\ failed \subseteq Range(proc.batch_info[1].tasks)
    /\ EndBatch("completed", None)
    /\ batch_tasks' = [ id \in BatchTaskIds |->
                          IF id \in failed THEN FAILED
                          ELSE IF id \in Range(proc.batch_info[1].tasks) THEN COMPLETED
                          ELSE batch_tasks[id] ]
    /\ UNCHANGED <<formed, ret, ProcessFrame>>

\* await processor_func(batch) raises an Exception; the processor has left
\* the member tasks in failed FAILED and did not finish the others.
ProcessorRaises(failed) ==
    /\ proc.pc = "await"
    /\ failed \subseteq Range(proc.batch_info[1].tasks)
    /\ EndBatch("failed", ProcessorError)
    /\ batch_tasks' = [ id \in BatchTaskIds |->
                          IF id \in failed THEN FAILED ELSE batch_tasks[id] ]
    /\ UNCHANGED <<formed, ret, ProcessFrame>>

\* The configs process_batches is called with: the default, batches of one,
\* batches of exactly two.
ProcessConfigs == { None, <<[ max_batch_size |-> 1, min_batch_size |-> 1 ]>>,
                    <<[ max_batch_size |-> 2, min_batch_size |-> 2 ]>> }
\* The rule runs of one pass: rule_ids = ["r1"].
ProcessRuns == { runs \in RuleRuns : Len(runs) <= 1 }

\* Tasks are added at any time; process_batches calls follow one another,
\* with a config or with rules, and each processor call returns or raises.
NextProcessing ==
    \/ \E id \in BatchTaskIds : AddBatchTask(id)
    \/ \E config \in ProcessConfigs, rules \in BOOLEAN : ProcessBatches(config, rules)
    \/ \E runs \in ProcessRuns : ProcessLoop(runs)
    \/ \E failed \in SUBSET BatchTaskIds : ProcessorReturns(failed)
    \/ \E failed \in SUBSET BatchTaskIds : ProcessorRaises(failed)

SpecProcessing == Init /\ [][NextProcessing]_vars

\* C31: a batch ends with status "completed" iff none of its member tasks is
\* FAILED, and a batch with a FAILED member ends "failed".
C31_BatchCompletedIffNoMemberFailed ==
    [][ (proc.pc = "await" /\ proc'.pc = "loop") =>
          LET info == Last(controller'.completed_batches)
          IN  (info.status = "completed")
                  <=> (\A t \in Range(info.tasks) : batch_tasks'[t] # FAILED)
      ]_vars

\* ------------------------------------------------ execute_workflow, rounds
\* One execute_workflow call on any workflow, run by an event loop that lets
\* every ready coroutine run and with an executor whose every call ends, by
\* returning or by raising.
NextWorkflowFair ==
    \/ \E specs \in WorkflowInputs : CreateWorkflow(specs)
    \/ ExecuteWorkflow
    \/ \E id \in TaskIds : WorkflowTaskStart(id)
    \/ \E c \in Slots : ExecutorReturns(c)
    \/ \E c \in Slots : ExecutorRaises(c)
    \/ WorkflowRound

SpecWorkflowFair ==
    /\ Init /\ [][NextWorkflowFair]_vars
    /\ \A id \in TaskIds : WF_vars(WorkflowTaskStart(id))
    /\ \A c \in Slots : WF_vars(ExecutorReturns(c) \/ ExecutorRaises(c))
    /\ WF_vars(WorkflowRound)

\* C32: execute_workflow terminates for every workflow (cycles, dependencies
\* outside the workflow, failing tasks) when each executor call returns or
\* raises, and a round launches each task once and only tasks that no
\* earlier round launched.
C32_WorkflowTerminates ==
    /\ (wf.pc = "gather") ~> (wf.pc = "done")
    /\ [][ (wf'.pc = "gather" /\ wf'.current_tasks # wf.current_tasks) =>
             /\ \A t \in Range(wf'.current_tasks) : t \notin DOMAIN wf'.results
             /\ \A i, j \in DOMAIN wf'.current_tasks :
                    i # j => wf'.current_tasks[i] # wf'.current_tasks[j]
         ]_vars

\* C32 witness: execute_workflow has returned from a workflow with a cycle
\* and a task outside the cycle that was launched and failed.
C32_Witness ==
    /\ wf.pc = "done"
    /\ ~Acyclic
    /\ \E t \in DOMAIN wf.results : wf.results[t] # TheResult

\* execute_workflow has returned after three rounds, the first task failing.
C32_WitnessRounds ==
    /\ wf.pc = "done"
    /\ Cardinality(DOMAIN wf.results) = 3
    /\ \E t \in DOMAIN wf.results : wf.results[t] # TheResult
    /\ \E t, u, v \in DOMAIN wf.results :
           /\ objs[get_task(tasks, u)].dependencies = <<t>>
           /\ objs[get_task(tasks, v)].dependencies = <<u>>

\* ------------------------------------------------------ ledger conservation
\* The sum of the amounts of the records of one action in the history.
RECURSIVE SumAmounts(_, _)
SumAmounts(h, action) ==
    IF h = <<>> THEN 0
    ELSE (IF Head(h).action = action THEN Head(h).amount ELSE 0) + SumAmounts(Tail(h), action)

\* The sum of the allocations of all components.
RECURSIVE SumAllocations(_, _)
SumAllocations(al, cs) ==
    IF cs = {} THEN 0
    ELSE LET c == CHOOSE x \in cs : TRUE
         IN  get_allocation(al, c) + SumAllocations(al, cs \ {c})

\* C33: ledger conservation, for a ledger constructed with balance 0 and once
\* the calls made on it have returned: balance is the sum of the amounts of
\* the ALLOCATE records, the allocations of all components sum to the
\* ALLOCATE amounts less the USE amounts, and the history holds one record
\* per call that returned True and none for a call that returned False.
C33_LedgerConservation ==
    AllReturned =>
        /\ balance = SumAmounts(usage_history, "allocate")
        /\ SumAllocations(allocations, Components)
               = SumAmounts(usage_history, "allocate") - SumAmounts(usage_history, "use")
        /\ Len(usage_history) = Cardinality({ t \in Threads : threads[t].val })

\* ------------------------------------------------- schedule queue, entries
\* C34: at most one schedule entry is executing at any time (get_next_batch
\* hands out no second entry while an entry it returned is not completed),
\* and get_next_batch returns None on an empty queue and the head otherwise.
C34_AtMostOneExecuting ==
    Cardinality({ i \in DOMAIN current_schedule :
                    current_schedule[i].status = "executing" }) <= 1

\* get_next_batch returns None on an empty queue and the head entry otherwise.
GetNextBatchReturnsHead ==
    ret.op = "get_next_batch" =>
        IF current_schedule = <<>> THEN ret.val = None
        ELSE ret.val = current_schedule[1].schedule_id

\* C35: the schedule ids of the entries in the schedule queue are pairwise
\* different after any sequence of schedule_batch and complete_batch calls,
\* so complete_batch(id) removes the entry that was scheduled under that id.
C35_ScheduleIdsUnique ==
    \A i, j \in DOMAIN current_schedule :
        current_schedule[i].schedule_id = current_schedule[j].schedule_id => i = j

\* --------------------------------------------- sleep scheduler bookkeeping
\* C36: in every reachable state the scheduled, completed and failed id
\* sets of the TaskScheduler are pairwise disjoint, a task is in failed_tasks
\* iff its status is failed and in completed_tasks iff its status is
\* completed, and a task id is in task_queue at most once.
C36_SchedulerBookkeeping ==
    /\ scheduler.scheduled_tasks \cap scheduler.completed_tasks = {}
    /\ scheduler.scheduled_tasks \cap scheduler.failed_tasks = {}
    /\ scheduler.completed_tasks \cap scheduler.failed_tasks = {}
    /\ \A id \in SleepIds :
          scheduler.tasks[id] # None =>
             /\ id \in scheduler.failed_tasks <=> scheduler.tasks[id].status = "failed"
             /\ id \in scheduler.completed_tasks <=> scheduler.tasks[id].status = "completed"
    /\ \A i, j \in DOMAIN scheduler.task_queue :
          scheduler.task_queue[i][2] = scheduler.task_queue[j][2] => i = j

\* The parts of the bookkeeping that do not involve failed_tasks.
SchedulerBookkeepingBesidesFailed ==
    /\ scheduler.scheduled_tasks \cap scheduler.completed_tasks = {}
    /\ \A id \in SleepIds :
          scheduler.tasks[id] # None =>
             /\ scheduler.tasks[id].status = "failed" => id \in scheduler.failed_tasks
             /\ id \in scheduler.completed_tasks <=> scheduler.tasks[id].status = "completed"
    /\ \A i, j \in DOMAIN scheduler.task_queue :
          scheduler.task_queue[i][2] = scheduler.task_queue[j][2] => i = j

\* ------------------------------------------------ executors that keep failing
\* The task queue when every execution fails: tasks without dependencies and
\* without a resource estimate are added, _execute_pending_tasks is called
\* again and again (the system is idle), and each executor call raises, with
\* an error of any kind.
NextFailing ==
    \/ \E id \in SleepIds, p \in SleepPriorities : AddSleepTask(id, p, None, <<>>)
    \/ \E w \in QueueCallers : ExecutePendingTasks(w)
    \/ \E w \in QueueCallers : WorkerPeek(w)
    \/ \E w \in QueueCallers : WorkerStart(w)
    \/ \E w \in QueueCallers, e \in SleepErrors : SleepExecutorRaises(w, e)

\* The worker loop is scheduled fairly and every executor call ends.
SpecFailing ==
    /\ Init /\ [][NextFailing]_vars
    /\ \A w \in QueueCallers :
          /\ WF_vars(ExecutePendingTasks(w))
          /\ WF_vars(WorkerPeek(w))
          /\ WF_vars(WorkerStart(w))
          /\ WF_vars(\E e \in SleepErrors : SleepExecutorRaises(w, e))

\* C37: under a fair worker loop with the system idle, a task whose executor
\* keeps failing eventually is terminal failed and is not queued again.
C37_FailingTaskBecomesTerminal ==
    \A id \in SleepIds :
        (scheduler.tasks[id] # None) ~>
            [](/\ scheduler.tasks[id] # None
               /\ scheduler.tasks[id].status = "failed"
               /\ id \notin QueuedIds(scheduler.task_queue))

\* ------------------------------------------------------ start, stop, start
\* The optimizer started and stopped more than once: each start() that finds
\* running false creates a new thread, an executor call may outlast the
\* join of stop(), and the clock runs past the join timeout. Only an
\* executor call and time.sleep take time: the clock advances when every
\* worker thread is inside one of them (or is not running).
RestartClock == JoinTimeout + 1

Waiting(w) ==
    \/ workers[w].pc \in {"none", "exit", "execute"}
    \/ workers[w].pc = "sleep" /\ workers[w].wake > clock

RestartTick ==
    /\ clock < RestartClock
    /\ \A w \in WorkerIds : Waiting(w)
    /\ clock' = clock + 1
    /\ UNCHANGED <<monitor, scheduler, detector, optimizer, workers, idle_checks, SleepFrame>>

NextRestart ==
    \/ \E id \in SleepIds : AddSleepTask(id, MEDIUM, None, <<>>)
    \/ \E w \in WorkerIds : Start(w)
    \/ Stop
    \/ StopJoined
    \/ \E w \in WorkerIds : WorkerCheck(w)
    \/ \E w \in WorkerIds : WorkerPeek(w)
    \/ \E w \in WorkerIds : WorkerStart(w)
    \/ \E w \in WorkerIds : SleepExecutorReturns(w)
    \/ \E w \in WorkerIds : WorkerSleep(w)
    \/ \E w \in WorkerIds : WorkerWake(w)
    \/ RestartTick

SpecRestart == InitSleeping /\ [][NextRestart]_vars

\* The worker threads that are inside _worker_loop.
ActiveWorkers == { w \in WorkerIds : workers[w].pc \notin {"none", "exit"} }
\* The worker threads that are inside _execute_pending_tasks.
ExecutingWorkers == { w \in WorkerIds : workers[w].pc \in {"peek", "repush", "got", "execute"} }

\* Two workers are never inside _execute_pending_tasks together.
NoConcurrentExecution == Cardinality(ExecutingWorkers) <= 1

\* C38: after any sequence of start and stop calls at most one worker loop
\* is active, also when the join of stop() gave up on a worker that is
\* inside a task and start() is called again; two workers never pop and
\* execute sleep-time tasks concurrently.
C38_AtMostOneWorkerLoop ==
    /\ optimizer.join_deadline = None => Cardinality(ActiveWorkers) <= 1
    /\ NoConcurrentExecution

\* ------------------------------------------------- batch task conservation
RECURSIVE Concat(_)
Concat(batches) == IF batches = <<>> THEN <<>> ELSE Head(batches) \o Concat(Tail(batches))

\* The returned batches, in the order of their return, followed by the
\* pending list.
Placed == Concat(formed) \o controller.pending_tasks
\* The tasks add_task was called with.
Added == { id \in BatchTaskIds : batch_tasks[id] # "absent" }

\* Every added task is in exactly one place.
ExactlyOnePlace ==
    /\ Range(Placed) = Added
    /\ \A i, j \in DOMAIN Placed : Placed[i] = Placed[j] => i = j

\* add_task puts the task behind all others; every other call (forming a
\* batch) moves tasks from the head of pending to a new last batch and
\* nothing else.
InsertionOrderKept ==
    [][ IF \E id \in BatchTaskIds : AddBatchTask(id)
        THEN \A id \in BatchTaskIds : AddBatchTask(id) => Placed' = Append(Placed, id)
        ELSE Placed' = Placed
      ]_vars

\* C39: after any sequence of add_task, form_batch and form_optimal_batch
\* calls every added task is either in the pending list or in exactly one
\* returned batch, and the returned batches followed by the pending list are
\* the tasks in the order add_task was called with them.
C39_BatchTaskConservation == []ExactlyOnePlace /\ InsertionOrderKept

\* A rule mean below zero made form_optimal_batch return all pending tasks
\* but the last, which stays pending.
C39_Witness ==
    /\ ret.op = "form_optimal_batch"
    /\ ret.arg # <<>>
    /\ Sum(RecommendationsOf(ret.arg)) < 0
    /\ ret.val = <<"b1", "b2">>
    /\ controller.pending_tasks = <<"b3">>
    /\ formed = << <<"b1", "b2">> >>

\* ------------------------------------------------ process_batches, the end
\* The event loop runs process_batches whenever it can go on, and every
\* processor call ends, by returning or by raising.
SpecProcessingFair ==
    /\ SpecProcessing
    /\ WF_vars(\E runs \in ProcessRuns : ProcessLoop(runs))
    /\ WF_vars(\E failed \in SUBSET BatchTaskIds :
                   ProcessorReturns(failed) \/ ProcessorRaises(failed))

\* A process_batches call that was made returns.
ProcessBatchesTerminates == (proc.pc = "loop") ~> (proc.pc = "returned")

\* A processor call that raises fails its own batch only, and the loop goes
\* on to form the next batch.
FailureIsLocal ==
    [][ (\E failed \in SUBSET BatchTaskIds : ProcessorRaises(failed)) =>
          /\ proc'.pc = "loop"
          /\ Last(controller'.completed_batches).status = "failed"
          /\ \A i \in DOMAIN controller.completed_batches :
                controller'.completed_batches[i] = controller.completed_batches[i]
          /\ controller'.pending_tasks = controller.pending_tasks
      ]_vars

\* Every batch that was formed is active or completed, once, and each result
\* entry of the running call stands for one of the last completed batches.
BatchesAccounted ==
    LET completed == controller.completed_batches
        active == controller.active_batches
        results == proc.results
    IN  /\ Len(completed) + Len(active) = Len(formed)
        /\ \A i \in DOMAIN completed : completed[i].tasks = formed[i]
        /\ \A i \in DOMAIN active : active[i].tasks = formed[Len(completed) + i]
        /\ Len(results) <= Len(completed)
        /\ \A k \in DOMAIN results :
              LET info == completed[Len(completed) - Len(results) + k]
              IN  /\ results[k].task_count = Len(info.tasks)
                  /\ results[k].error = info.error

\* process_batches returns in this step.
ProcessBatchesReturns == proc.pc = "loop" /\ proc'.pc = "returned"

\* min_batch_size of the sizing a call uses: that of its config, or of the
\* default config.
MinBatchSizeOf(call) ==
    IF call.rules \/ call.config = None THEN DefaultMinBatchSize
    ELSE call.config[1].min_batch_size

\* On return no batch is active and the results are those of the call.
ReturnsWithNoActiveBatch ==
    [][ ProcessBatchesReturns =>
          /\ controller'.active_batches = <<>>
          /\ ret'.val = proc.results
      ]_vars

\* On return the pending list is empty or too short to form a batch.
ReturnsWithPendingDrained ==
    [][ ProcessBatchesReturns =>
          \/ controller'.pending_tasks = <<>>
          \/ Len(controller'.pending_tasks) < MinBatchSizeOf(proc)
      ]_vars

\* C40: process_batches terminates when each processor call returns or
\* raises; a processor failure fails only its batch and the following
\* batches are still formed and processed; on return active_batches is
\* empty, each formed batch is once in completed_batches and once in the
\* results, and the pending list is empty or too short to form a batch.
C40_ProcessBatchesDrains ==
    /\ ProcessBatchesTerminates
    /\ FailureIsLocal
    /\ []BatchesAccounted
    /\ ReturnsWithNoActiveBatch
    /\ ReturnsWithPendingDrained

\* All of it but the state of the pending list on return.
ProcessBatchesBesidesPending ==
    /\ ProcessBatchesTerminates
    /\ FailureIsLocal
    /\ []BatchesAccounted
    /\ ReturnsWithNoActiveBatch

====
